---- MODULE Spec2Model ----
(***************************************************************************)
(* Heartbeat / outage state machine of light_status_bot (src/bot.py).      *)
(*                                                                         *)
(* The process runs ONE asyncio event loop: the aiohttp handler            *)
(* handle_ping, the Telegram command handlers and the background task      *)
(* check_timeouts are coroutines of that loop, so code between two awaits  *)
(* runs atomically.  Every action below is one such await-free block: a    *)
(* handler or the sweep up to its next await, or from an await on.         *)
(* The store is SQLite; each function opens its own connection and commits *)
(* once, and no connection issues PRAGMA foreign_keys, so the ON DELETE    *)
(* CASCADE clauses of the schema are not enforced.  A connection whose     *)
(* statement failed on a UNIQUE or PRIMARY KEY constraint holds the write  *)
(* lock of the file until it is closed, and every other write fails        *)
(* meanwhile.                                                              *)
(***************************************************************************)
EXTENDS Integers, Sequences, FiniteSets, TLC

\* ------------------------------------------------------------------ bounds
\* the wall clock is explored up to this time (seconds)
MaxTime == 900
\* history rows one channel id may collect in the explored runs
MaxHistory == 3

\* management commands issued in the explored runs
MaxCmds == 2
\* the last clock reading of the runs with key commands during a sweep
MaxTimeLate == 1200
\* heartbeat handlers suspended in a send at the same time
MaxPings == 1
\* dashboard handlers suspended in get_chat at the same time
MaxDashboards == 1

\* identities drawn as inputs
ChannelIds == {1, 2}
UserIds == {1, 2}
Keys == {1, 2, 3}

\* ------------------------------------------------------- program constants
TIMEOUT_MINUTES == 5
\* SQL NULL / Python None
NULL == -1
\* a request without the channel_key parameter
NoKey == 0
\* SQL NULL in the TEXT column channel_name
NoName == "NULL"

timeout_seconds == TIMEOUT_MINUTES * 60

\* the clock is sampled once per grace period, so that two readings differ
\* by 0, by exactly the grace period, or by more
TickStep == timeout_seconds
StartTime == TickStep

VARIABLES
    channels,   \* table channels: channel_id -> row
    history,    \* table history: per channel_id, its rows in rowid order
    issued,     \* api keys that have ever been stored
    cmds,       \* management commands handled so far
    clock,      \* wall clock, seconds
    scanPc,     \* check_timeouts: "sleep" | "await" | "dead"
    scanRows,   \* check_timeouts: the snapshot row in hand and those after it
    scanNow,    \* check_timeouts: `now` of the sweep in progress
    pings,      \* handle_ping: the handlers suspended in send_message
    dbLock,     \* the write lock of the database file: "free", or the
                \* handler whose connection holds it
    notifications, \* table notifications: <<user_id, channel_id>> -> enabled
    whitelist,  \* table whitelist: <<channel_id, user_id>> -> added_by
    dashboards, \* handle_dashboard: the channel ids of the handlers
                \* suspended in get_chat
    out         \* observable outcome of the last operation

vars ==
    <<channels, history, issued, cmds, clock, scanPc, scanRows, scanNow, pings,
      dbLock, notifications, whitelist, dashboards, out>>

\* Python truthiness of a REAL column value (None and 0.0 are falsy)
Truthy(x) == x # NULL /\ x # 0

Out(op, api_key, channel_id, status, was_on, notify, ts, written) ==
    [op |-> op, api_key |-> api_key, channel_id |-> channel_id,
     status |-> status, was_on |-> was_on, notify |-> notify, ts |-> ts,
     written |-> written]

\* ------------------------------------------------------------ storage layer
\* INSERT INTO channels (channel_id, owner_id, api_key): column defaults
NewRow(owner_id, api_key) ==
    [owner_id |-> owner_id, api_key |-> api_key, last_request_time |-> NULL,
     is_power_on |-> 0, last_status_change |-> NULL, paused |-> 0,
     timezone |-> "Europe/Kiev", channel_name |-> NoName]

\* mutant: the lookup without its WHERE clause
get_channel_by_key_any(api_key) ==
    DOMAIN channels

\* SELECT ... FROM channels WHERE api_key = ?  (the set of matching ids)
get_channel_by_key(api_key) ==
    {c \in DOMAIN channels : channels[c].api_key = api_key}

\* mutant: the update skips paused rows
update_last_request_unpaused(chs, api_key, timestamp) ==
    [c \in DOMAIN chs |->
        IF chs[c].api_key = api_key /\ chs[c].paused = 0
        THEN [chs[c] EXCEPT !.last_request_time = timestamp]
        ELSE chs[c]]

\* UPDATE channels SET last_request_time = ? WHERE api_key = ?
update_last_request(chs, api_key, timestamp) ==
    [c \in DOMAIN chs |->
        IF chs[c].api_key = api_key
        THEN [chs[c] EXCEPT !.last_request_time = timestamp]
        ELSE chs[c]]

\* mutant: the UPDATE without the INSERT INTO history
update_power_status_no_insert(chs, hist, api_key, is_on, timestamp) ==
    [channels |->
        [c \in DOMAIN chs |->
            IF chs[c].api_key = api_key
            THEN [chs[c] EXCEPT !.is_power_on = IF is_on THEN 1 ELSE 0,
                                !.last_status_change = timestamp]
            ELSE chs[c]],
     history |-> hist]

\* mutant: turning a device OFF also clears its last_request_time
update_power_status_clears_seen(chs, hist, api_key, is_on, timestamp) ==
    LET row == {c \in DOMAIN chs : chs[c].api_key = api_key}
        bit == IF is_on THEN 1 ELSE 0
    IN  IF row # {}
        THEN LET channel_id == CHOOSE c \in row : TRUE
             IN [channels |->
                    [c \in DOMAIN chs |->
                        IF chs[c].api_key = api_key
                        THEN [chs[c] EXCEPT
                                !.is_power_on = bit,
                                !.last_status_change = timestamp,
                                !.last_request_time =
                                    IF is_on THEN @ ELSE NULL]
                        ELSE chs[c]],
                 history |->
                    [hist EXCEPT ![channel_id] =
                        Append(@, [status |-> bit, timestamp |-> timestamp])]]
        ELSE [channels |-> chs, history |-> hist]

\* one transaction: UPDATE channels ... ; INSERT INTO history ...
update_power_status(chs, hist, api_key, is_on, timestamp) ==
    LET row == {c \in DOMAIN chs : chs[c].api_key = api_key}
        bit == IF is_on THEN 1 ELSE 0
    IN  IF row # {}
        THEN LET channel_id == CHOOSE c \in row : TRUE
             IN [channels |->
                    [c \in DOMAIN chs |->
                        IF chs[c].api_key = api_key
                        THEN [chs[c] EXCEPT !.is_power_on = bit,
                                            !.last_status_change = timestamp]
                        ELSE chs[c]],
                 history |->
                    [hist EXCEPT ![channel_id] =
                        Append(@, [status |-> bit, timestamp |-> timestamp])]]
        ELSE [channels |-> chs, history |-> hist]

\* mutant: the column without its UNIQUE constraint
KeyTakenByOther_never(channel_id, api_key) ==
    FALSE

\* api_key TEXT UNIQUE: the rows other than channel_id that hold api_key
KeyTakenByOther(channel_id, api_key) ==
    \E c \in DOMAIN channels \ {channel_id} : channels[c].api_key = api_key

\* SELECT status, timestamp FROM history WHERE channel_id = ? ORDER BY
\* timestamp ASC: rows of equal timestamp stay in rowid order
RECURSIVE InsertByTimestamp(_, _)
InsertByTimestamp(sorted, e) ==
    IF sorted = <<>> THEN <<e>>
    ELSE IF e.timestamp < Head(sorted).timestamp THEN <<e>> \o sorted
    ELSE <<Head(sorted)>> \o InsertByTimestamp(Tail(sorted), e)

RECURSIVE OrderByTimestamp(_)
OrderByTimestamp(rows) ==
    IF rows = <<>> THEN <<>>
    ELSE InsertByTimestamp(OrderByTimestamp(SubSeq(rows, 1, Len(rows) - 1)),
                           rows[Len(rows)])

\* owner_id of get_channel_config(channel_id); None when there is no row
config_owner_id(channel_id) ==
    IF channel_id \in DOMAIN channels THEN channels[channel_id].owner_id ELSE NULL

is_owner(channel_id, user_id) ==
    config_owner_id(channel_id) = NULL \/ config_owner_id(channel_id) = user_id

\* UPDATE channels SET channel_name = ? WHERE channel_id = ?
update_channel_name(chs, channel_id, channel_name) ==
    [c \in DOMAIN chs |->
        IF c = channel_id
        THEN [chs[c] EXCEPT !.channel_name = channel_name]
        ELSE chs[c]]

\* SELECT user_id FROM notifications WHERE channel_id = ? AND enabled = 1
subscribers(channel_id) ==
    {p[1] : p \in {q \in DOMAIN notifications :
                      q[2] = channel_id /\ notifications[q] = 1}}

\* A connection whose INSERT or UPDATE failed on a UNIQUE or PRIMARY KEY
\* constraint stays inside the transaction of the failed statement and
\* holds the write lock of the file until it is closed.  Other connections still read; a
\* statement that writes waits for the busy timeout (5 s) and raises
\* sqlite3.OperationalError('database is locked').
Locked == dbLock # "free"

\* secrets.token_urlsafe: a key no row has ever held (the least number that
\* was never stored)
token_urlsafe ==
    CHOOSE k \in 1..(Cardinality(issued) + 1) :
        k \notin issued /\ \A j \in 1..(k - 1) : j \in issued

\* the keys a request or a command can carry: those drawn as inputs and
\* every key the program has generated
KnownKeys == Keys \cup issued

\* ------------------------------------------------------------------- clock
Tick ==
    /\ clock + TickStep <= MaxTime
    /\ clock' = clock + TickStep
    /\ out' = Out("tick", NULL, NULL, "", FALSE, "none", NULL, NULL)
    /\ UNCHANGED <<channels, history, issued, cmds, scanPc, scanRows,
                   scanNow, pings, dbLock, notifications, whitelist,
                   dashboards>>

\* the clock of the runs that need two devices last seen at different times
\* and both expired: one more reading than Tick allows
TickLate ==
    /\ clock + TickStep <= MaxTimeLate
    /\ clock' = clock + TickStep
    /\ out' = Out("tick", NULL, NULL, "", FALSE, "none", NULL, NULL)
    /\ UNCHANGED <<channels, history, issued, cmds, scanPc, scanRows,
                   scanNow, pings, dbLock, notifications, whitelist,
                   dashboards>>

\* --------------------------------------------------------------- heartbeat
\* a handler of GET /channelPing that is suspended in an await: the key and
\* the row it was called for, its `now`, and where it waits ("send": the
\* send_message to the channel, "dm": the sends to the subscribed users)
Suspended(api_key, channel_id, now, pc) ==
    [api_key |-> api_key, channel_id |-> channel_id, now |-> now, pc |-> pc]

\* mutant: update_power_status is called outside the `if not was_on` test,
\* which only guards the notification
handle_ping_always_promotes(api_key) ==
    /\ api_key # NoKey
    /\ ~Locked
    /\ get_channel_by_key(api_key) # {}
    /\ LET channel_id == CHOOSE c \in get_channel_by_key(api_key) : TRUE
           now == clock
           was_on == channels[channel_id].is_power_on # 0
           chs1 == update_last_request(channels, api_key, now)
           r == update_power_status(chs1, history, api_key, TRUE, now)
       IN  /\ UNCHANGED <<issued, cmds, clock, scanPc, scanRows, scanNow,
                          dbLock, notifications, whitelist, dashboards>>
           /\ Len(history[channel_id]) < MaxHistory
           /\ channels' = r.channels
           /\ history' = r.history
           /\ IF ~was_on
              THEN /\ Cardinality(pings) < MaxPings
                   /\ pings' = pings \cup
                                 {Suspended(api_key, channel_id, now, "send")}
                   /\ out' = Out("ping", api_key, channel_id, "", was_on,
                                 "none", now, channel_id)
              ELSE /\ UNCHANGED pings
                   /\ out' = Out("ping", api_key, channel_id, "200", was_on,
                                 "none", now, channel_id)

\* GET /channelPing?channel_key=api_key, from the call of the handler to its
\* return or to its first await.  Without a key, with an unknown key and for
\* a device that is ON the handler returns without suspending.  For a device
\* that is not ON it commits last_request_time and the transition and then
\* suspends in send_message (telegram_app is set before the server starts):
\* the response is not known yet, status is "".  While another connection
\* holds the write lock the lookup of the key still answers, the first write
\* (update_last_request) raises, and aiohttp answers 500.
handle_ping(api_key) ==
    IF api_key = NoKey
    THEN /\ out' = Out("ping", api_key, NULL, "400", FALSE, "none", NULL, NULL)
         /\ UNCHANGED <<channels, history, issued, cmds, clock, scanPc,
                        scanRows, scanNow, pings, dbLock, notifications,
                        whitelist, dashboards>>
    ELSE IF get_channel_by_key(api_key) = {}
    THEN /\ out' = Out("ping", api_key, NULL, "403", FALSE, "none", NULL, NULL)
         /\ UNCHANGED <<channels, history, issued, cmds, clock, scanPc,
                        scanRows, scanNow, pings, dbLock, notifications,
                        whitelist, dashboards>>
    ELSE LET channel_id == CHOOSE c \in get_channel_by_key(api_key) : TRUE
             now == clock
             was_on == channels[channel_id].is_power_on # 0
             chs1 == update_last_request(channels, api_key, now)
             r == update_power_status(chs1, history, api_key, TRUE, now)
         IN  /\ UNCHANGED <<issued, cmds, clock, scanPc, scanRows, scanNow,
                            dbLock, notifications, whitelist, dashboards>>
             /\ IF Locked
                THEN /\ UNCHANGED <<channels, history, pings>>
                     /\ out' = Out("ping_error", api_key, channel_id, "500",
                                   was_on, "none", NULL, NULL)
                ELSE IF ~was_on
                THEN /\ Len(history[channel_id]) < MaxHistory
                     /\ Cardinality(pings) < MaxPings
                     /\ channels' = r.channels
                     /\ history' = r.history
                     /\ pings' = pings \cup
                                   {Suspended(api_key, channel_id, now, "send")}
                     /\ out' = Out("ping", api_key, channel_id, "", was_on,
                                   "none", now, channel_id)
                ELSE /\ channels' = chs1
                     /\ UNCHANGED <<history, pings>>
                     /\ out' = Out("ping", api_key, channel_id, "200", was_on,
                                   "none", NULL, NULL)

\* the send_message to the channel returns: the handler reads the
\* subscribers of the channel and, when there is none, returns 200; when
\* there are some it suspends again in the first send to a user
handle_ping_sent(p) ==
    /\ p \in pings /\ p.pc = "send"
    /\ UNCHANGED <<channels, history, issued, cmds, clock, scanPc, scanRows,
                   scanNow, dbLock, notifications, whitelist, dashboards>>
    /\ IF subscribers(p.channel_id) # {}
       THEN /\ pings' = (pings \ {p}) \cup
                           {Suspended(p.api_key, p.channel_id, p.now, "dm")}
            /\ out' = Out("ping_sent", p.api_key, p.channel_id, "", FALSE,
                          "recovered", p.now, p.channel_id)
       ELSE /\ pings' = pings \ {p}
            /\ out' = Out("ping_response", p.api_key, p.channel_id, "200",
                          FALSE, "recovered", p.now, p.channel_id)

\* the send_message to the channel raises: it is outside any try block, the
\* handler raises and aiohttp answers 500
handle_ping_send_failed(p) ==
    /\ p \in pings /\ p.pc = "send"
    /\ UNCHANGED <<channels, history, issued, cmds, clock, scanPc, scanRows,
                   scanNow, dbLock, notifications, whitelist, dashboards>>
    /\ pings' = pings \ {p}
    /\ out' = Out("ping_response", p.api_key, p.channel_id, "500", FALSE,
                  "recover_failed", p.now, p.channel_id)

\* the last send to a user returns or raises (`except Exception: pass`): the
\* handler returns 200
handle_ping_dm_done(p) ==
    /\ p \in pings /\ p.pc = "dm"
    /\ UNCHANGED <<channels, history, issued, cmds, clock, scanPc, scanRows,
                   scanNow, dbLock, notifications, whitelist, dashboards>>
    /\ pings' = pings \ {p}
    /\ out' = Out("ping_response", p.api_key, p.channel_id, "200", FALSE,
                  "dm", p.now, p.channel_id)

\* a suspended handler goes on
handle_ping_resume ==
    \E p \in pings :
        \/ handle_ping_sent(p)
        \/ handle_ping_send_failed(p)
        \/ handle_ping_dm_done(p)

\* the storage calls of the handler; the last one, the SELECT of the
\* subscribers, is made after the send_message to the channel returned
StorageCalls ==
    {"get_channel_by_key", "update_last_request", "update_power_status",
     "get_daily_stats", "notifications"}

\* GET /channelPing?channel_key=api_key when the storage call `at` raises an
\* sqlite3 error: what the calls before it committed stays committed, the
\* handler raises and aiohttp answers 500.  The first four calls come before
\* the first await, so no notification was sent; the SELECT of the
\* subscribers raises in a handler whose send_message to the channel has
\* just returned, so the notification was delivered.
handle_ping_storage_error(api_key, at) ==
    /\ api_key # NoKey
    /\ UNCHANGED <<issued, cmds, clock, scanPc, scanRows, scanNow, dbLock,
                   notifications, whitelist, dashboards>>
    /\ IF at = "get_channel_by_key"
       THEN /\ UNCHANGED <<channels, history, pings>>
            /\ out' = Out("ping_error", api_key, NULL, "500", FALSE, "none",
                          NULL, NULL)
       ELSE IF at = "notifications"
       THEN /\ UNCHANGED <<channels, history>>
            /\ \E p \in pings :
                  /\ p.api_key = api_key /\ p.pc = "send"
                  /\ pings' = pings \ {p}
                  /\ out' = Out("ping_error", api_key, p.channel_id, "500",
                                FALSE, "recovered", p.now, p.channel_id)
       ELSE /\ get_channel_by_key(api_key) # {}
            /\ UNCHANGED pings
            /\ LET channel_id == CHOOSE c \in get_channel_by_key(api_key) : TRUE
                   now == clock
                   was_on == channels[channel_id].is_power_on # 0
                   chs1 == update_last_request(channels, api_key, now)
                   r == update_power_status(chs1, history, api_key, TRUE, now)
               IN  IF at = "update_last_request"
                   THEN /\ UNCHANGED <<channels, history>>
                        /\ out' = Out("ping_error", api_key, channel_id, "500",
                                      was_on, "none", NULL, NULL)
                   ELSE IF at = "update_power_status"
                   THEN /\ ~was_on
                        /\ channels' = chs1
                        /\ UNCHANGED history
                        /\ out' = Out("ping_error", api_key, channel_id, "500",
                                      was_on, "none", NULL, NULL)
                   ELSE /\ ~was_on
                        /\ Len(history[channel_id]) < MaxHistory
                        /\ channels' = r.channels
                        /\ history' = r.history
                        /\ out' = Out("ping_error", api_key, channel_id, "500",
                                      was_on, "none", now, channel_id)

\* --------------------------------------------------------- timeout scanner
\* SELECT ... FROM channels WHERE is_power_on = 1 AND paused = 0, in rowid
\* (= channel_id) order, from channel id `from` upwards
RECURSIVE SelectFrom(_)
SelectFrom(from) ==
    IF \A c \in DOMAIN channels : c < from
    THEN <<>>
    ELSE IF from \in DOMAIN channels
            /\ channels[from].is_power_on = 1 /\ channels[from].paused = 0
         THEN <<[channel_id |-> from,
                 api_key |-> channels[from].api_key,
                 last_req |-> channels[from].last_request_time,
                 is_on |-> channels[from].is_power_on,
                 last_change |-> channels[from].last_status_change]>>
              \o SelectFrom(from + 1)
         ELSE SelectFrom(from + 1)

check_timeouts_select == SelectFrom(1)

\* mutant: the grace period taken in the wrong unit
Expired_wrong_unit(row, now) ==
    Truthy(row.last_req) /\ (now - row.last_req) > timeout_seconds * 60

\* the test of the loop body: `last_req and (now - last_req) > timeout_seconds`
Expired(row, now) ==
    Truthy(row.last_req) /\ (now - row.last_req) > timeout_seconds

\* the for loop runs without suspending over rows that are not expired
RECURSIVE SkipFresh(_, _)
SkipFresh(rows, now) ==
    IF rows = <<>> \/ Expired(Head(rows), now)
    THEN rows
    ELSE SkipFresh(Tail(rows), now)

\* The for loop from `rows` on, up to the next suspension point: either the
\* sweep ends (back to sleep), or the first expired row is written with the
\* values of the snapshot and the task suspends in send_message.  While the
\* task is suspended the row being notified is the head of scanRows.  `sent`
\* tells how the send_message before this piece of the loop ended.  While
\* another connection holds the write lock the snapshot is still read.
\* update_power_status first looks up the holder of the key of the snapshot
\* row: when no row holds it any more nothing is written and nothing is
\* raised, locked or not, and the task goes on to the send; when a row
\* holds it the UPDATE raises under the lock, no handler catches it, the
\* exception leaves `while True` and the task ends.
check_timeouts_loop(rows, now, sent) ==
    LET rest == SkipFresh(rows, now)
    IN  /\ UNCHANGED <<issued, cmds, clock, pings, dbLock, notifications,
                       whitelist, dashboards>>
        /\ IF rest = <<>>
           THEN /\ scanPc' = "sleep"
                /\ scanRows' = <<>>
                /\ scanNow' = NULL
                /\ out' = Out("scan_end", NULL, NULL, sent, FALSE, "none", NULL, NULL)
                /\ UNCHANGED <<channels, history>>
           ELSE LET row == Head(rest)
                    holder == {c \in DOMAIN channels :
                                  channels[c].api_key = row.api_key}
                    r == update_power_status(channels, history, row.api_key,
                                             FALSE, row.last_req)
                IN  IF Locked /\ holder # {}
                    THEN /\ scanPc' = "dead"
                         /\ scanRows' = Tail(rest)
                         /\ scanNow' = now
                         /\ out' = Out("scan_error", row.api_key,
                                       row.channel_id, sent, FALSE, "none",
                                       NULL, NULL)
                         /\ UNCHANGED <<channels, history>>
                    ELSE /\ \A c \in holder : Len(history[c]) < MaxHistory
                         /\ channels' = r.channels
                         /\ history' = r.history
                         /\ scanPc' = "await"
                         /\ scanNow' = now
                         /\ scanRows' = rest
                         /\ out' = Out("scan_off", row.api_key, row.channel_id,
                                       sent,
                                       \E c \in holder :
                                           channels[c].is_power_on = 1,
                                       "lost", row.last_req,
                                       IF holder = {} THEN NULL
                                       ELSE CHOOSE c \in holder : TRUE)

\* the calls of a sweep that can raise outside any try block: the snapshot
\* query, the write of an expired row, and pytz.timezone / get_daily_stats
\* that follow the write
ScanCalls == {"select", "update_power_status", "get_daily_stats"}

\* The call `at` raises in the sweep whose for loop stands before `rows`: no
\* handler catches it, the exception leaves `while True` and the task ends.
\* The snapshot query raises before the loop, whatever the rows are.  The
\* other calls are reached at the first expired row: update_power_status
\* raises before its commit, and the calls after it raise when the OFF row
\* is committed and no notification was sent.  `sent` tells how the
\* send_message before this piece of the loop ended.
check_timeouts_raise(rows, now, sent, at) ==
    LET rest == SkipFresh(rows, now)
    IN  /\ UNCHANGED <<issued, cmds, clock, pings, dbLock, notifications,
                       whitelist, dashboards>>
        /\ scanPc' = "dead"
        /\ IF at = "select"
           THEN /\ scanRows' = <<>>
                /\ scanNow' = NULL
                /\ out' = Out("scan_error", NULL, NULL, sent, FALSE, "none",
                              NULL, NULL)
                /\ UNCHANGED <<channels, history>>
           ELSE /\ rest # <<>>
                /\ scanRows' = Tail(rest)
                /\ scanNow' = now
                /\ LET row == Head(rest)
                       holder == {c \in DOMAIN channels :
                                     channels[c].api_key = row.api_key}
                       r == update_power_status(channels, history, row.api_key,
                                                FALSE, row.last_req)
                   IN  IF at = "update_power_status"
                       THEN /\ UNCHANGED <<channels, history>>
                            /\ out' = Out("scan_error", row.api_key,
                                          row.channel_id, sent, FALSE, "none",
                                          NULL, NULL)
                       ELSE /\ \A c \in holder : Len(history[c]) < MaxHistory
                            /\ channels' = r.channels
                            /\ history' = r.history
                            /\ out' = Out("scan_error", row.api_key,
                                          row.channel_id, sent,
                                          \E c \in holder :
                                              channels[c].is_power_on = 1,
                                          "none", row.last_req,
                                          IF holder = {} THEN NULL
                                          ELSE CHOOSE c \in holder : TRUE)

\* asyncio.sleep(30) returns: take the snapshot, read the clock, run the loop
check_timeouts_tick ==
    /\ scanPc = "sleep"
    /\ check_timeouts_loop(check_timeouts_select, clock, "")

\* send_message returns: the loop goes on with the next row
check_timeouts_resume ==
    /\ scanPc = "await"
    /\ check_timeouts_loop(Tail(scanRows), scanNow, "sent")

\* send_message raises: `except Exception` prints, the loop goes on with the
\* next row
check_timeouts_send_failed ==
    /\ scanPc = "await"
    /\ check_timeouts_loop(Tail(scanRows), scanNow, "send_failed")

\* asyncio.sleep(30) returns and the sweep that follows raises
check_timeouts_tick_error ==
    /\ scanPc = "sleep"
    /\ \E at \in ScanCalls :
          check_timeouts_raise(check_timeouts_select, clock, "", at)

\* send_message returns or raises, and the loop raises at the next expired
\* row
check_timeouts_resume_error ==
    /\ scanPc = "await"
    /\ \E sent \in {"sent", "send_failed"}, at \in ScanCalls \ {"select"} :
          check_timeouts_raise(Tail(scanRows), scanNow, sent, at)

\* ---------------------------------------------------- management commands
Mgmt(op, channel_id, user_id, status) ==
    [op |-> op, api_key |-> NULL, channel_id |-> channel_id,
     status |-> status, was_on |-> FALSE, notify |-> "none", ts |-> NULL,
     written |-> NULL, user_id |-> user_id]

\* a command handler is suspended in a reply with its connection open
CommandSuspended == dbLock \in {"import_channel_cmd", "whitelist_add_cmd"}

\* every command handler: one more command handled; it touches neither the
\* history table nor the scanner.  The Application handles one update at a
\* time (concurrent_updates is off), so no command starts while a command
\* handler is suspended.  A command that writes while another connection
\* holds the write lock raises sqlite3.OperationalError at its first write:
\* nothing is stored and nothing is replied (status "error").
Command ==
    /\ cmds < MaxCmds
    /\ ~CommandSuspended
    /\ cmds' = cmds + 1
    /\ UNCHANGED <<history, clock, scanPc, scanRows, scanNow, pings, dashboards>>

InsertRow(channel_id, row) ==
    [c \in DOMAIN channels \cup {channel_id} |->
        IF c = channel_id THEN row ELSE channels[c]]

\* mutant: INSERT OR REPLACE without the test for an existing row
create_channel_cmd_overwrites(channel_id, user_id) ==
    /\ Command
    /\ UNCHANGED <<notifications, whitelist>>
    /\ ~Locked
    /\ UNCHANGED dbLock
    /\ LET api_key == token_urlsafe
       IN  /\ channels' = InsertRow(channel_id, NewRow(user_id, api_key))
           /\ issued' = issued \cup {api_key}
           /\ out' = Mgmt("create_channel", channel_id, user_id, "ok")

create_channel_cmd(channel_id, user_id) ==
    /\ Command
    /\ UNCHANGED <<notifications, whitelist>>
    /\ UNCHANGED dbLock
    /\ IF config_owner_id(channel_id) # NULL
       THEN /\ out' = Mgmt("create_channel", channel_id, user_id, "refused")
            /\ UNCHANGED <<channels, issued>>
       ELSE IF Locked
       THEN /\ out' = Mgmt("create_channel", channel_id, user_id, "error")
            /\ UNCHANGED <<channels, issued>>
       ELSE LET api_key == token_urlsafe
            IN  /\ channels' = InsertRow(channel_id, NewRow(user_id, api_key))
                /\ issued' = issued \cup {api_key}
                /\ out' = Mgmt("create_channel", channel_id, user_id, "ok")

\* /import_channel <channel_id> <api_key>, from the call of the handler to
\* its return or to the await it suspends in with its connection open.  An
\* existing id is refused before any connection is opened.  When another
\* row holds the key the INSERT raises IntegrityError, and the handler
\* awaits the reply about it before `finally: conn.close()`: it suspends
\* with the connection inside the failed INSERT, holding the write lock.
import_channel_cmd(channel_id, user_id, api_key) ==
    /\ Command
    /\ UNCHANGED <<notifications, whitelist>>
    /\ IF config_owner_id(channel_id) # NULL
       THEN /\ out' = Mgmt("import_channel", channel_id, user_id, "refused")
            /\ UNCHANGED <<channels, issued, dbLock>>
       ELSE IF Locked
       THEN /\ out' = Mgmt("import_channel", channel_id, user_id, "error")
            /\ UNCHANGED <<channels, issued, dbLock>>
       ELSE IF KeyTakenByOther(channel_id, api_key)
       THEN /\ out' = Mgmt("import_channel", channel_id, user_id, "refused")
            /\ dbLock' = "import_channel_cmd"
            /\ UNCHANGED <<channels, issued>>
       ELSE /\ channels' = InsertRow(channel_id, NewRow(user_id, api_key))
            /\ issued' = issued \cup {api_key}
            /\ out' = Mgmt("import_channel", channel_id, user_id, "ok")
            /\ UNCHANGED dbLock

\* the reply about the taken key returns or raises: `finally: conn.close()`
\* rolls the failed INSERT back and gives up the write lock
import_channel_cmd_close ==
    /\ dbLock = "import_channel_cmd"
    /\ dbLock' = "free"
    /\ out' = Out("import_channel_close", NULL, NULL, "", FALSE, "none", NULL,
                  NULL)
    /\ UNCHANGED <<channels, history, issued, cmds, clock, scanPc, scanRows,
                   scanNow, pings, notifications, whitelist, dashboards>>

\* mutant: the guard without the is_owner test
Authorized_anyone(channel_id, user_id) ==
    config_owner_id(channel_id) # NULL

\* the guard shared by the owner-only commands
Authorized(channel_id, user_id) ==
    is_owner(channel_id, user_id) /\ config_owner_id(channel_id) # NULL

\* mutant: the new key is announced and the stored one stays
regenerate_key_cmd_keeps_key(channel_id, user_id) ==
    /\ Command
    /\ UNCHANGED <<notifications, whitelist>>
    /\ UNCHANGED dbLock
    /\ IF ~Authorized(channel_id, user_id)
       THEN /\ out' = Mgmt("regenerate_key", channel_id, user_id, "refused")
            /\ UNCHANGED <<channels, issued>>
       ELSE IF Locked
       THEN /\ out' = Mgmt("regenerate_key", channel_id, user_id, "error")
            /\ UNCHANGED <<channels, issued>>
       ELSE LET new_key == token_urlsafe
            IN  /\ UNCHANGED channels
                /\ issued' = issued \cup {new_key}
                /\ out' = Mgmt("regenerate_key", channel_id, user_id, "ok")

regenerate_key_cmd(channel_id, user_id) ==
    /\ Command
    /\ UNCHANGED <<notifications, whitelist>>
    /\ UNCHANGED dbLock
    /\ IF ~Authorized(channel_id, user_id)
       THEN /\ out' = Mgmt("regenerate_key", channel_id, user_id, "refused")
            /\ UNCHANGED <<channels, issued>>
       ELSE IF Locked
       THEN /\ out' = Mgmt("regenerate_key", channel_id, user_id, "error")
            /\ UNCHANGED <<channels, issued>>
       ELSE LET new_key == token_urlsafe
            IN  /\ channels' = [channels EXCEPT ![channel_id].api_key = new_key]
                /\ issued' = issued \cup {new_key}
                /\ out' = Mgmt("regenerate_key", channel_id, user_id, "ok")

\* /replace_key <channel_id> <new_key>.  UPDATE ... SET api_key raises
\* IntegrityError when another row holds new_key, and no handler catches it:
\* nothing is written and nothing is replied, commit and close are skipped,
\* and the connection is left open inside the failed UPDATE, holding the
\* write lock.
replace_key_cmd(channel_id, user_id, new_key) ==
    /\ Command
    /\ UNCHANGED <<notifications, whitelist>>
    /\ IF ~Authorized(channel_id, user_id)
       THEN /\ out' = Mgmt("replace_key", channel_id, user_id, "refused")
            /\ UNCHANGED <<channels, issued, dbLock>>
       ELSE IF Locked
       THEN /\ out' = Mgmt("replace_key", channel_id, user_id, "error")
            /\ UNCHANGED <<channels, issued, dbLock>>
       ELSE IF KeyTakenByOther(channel_id, new_key)
       THEN /\ out' = Mgmt("replace_key", channel_id, user_id, "error")
            /\ dbLock' = "replace_key_cmd"
            /\ UNCHANGED <<channels, issued>>
       ELSE /\ channels' = [channels EXCEPT ![channel_id].api_key = new_key]
            /\ issued' = issued \cup {new_key}
            /\ out' = Mgmt("replace_key", channel_id, user_id, "ok")
            /\ UNCHANGED dbLock

\* The connection that replace_key_cmd left open is unreachable once the
\* exception is dropped, but it is in a reference cycle: it is closed, and
\* the write lock given up, when the cycle collector of the interpreter
\* next runs, at a time the program does not choose.
replace_key_cmd_collected ==
    /\ dbLock = "replace_key_cmd"
    /\ dbLock' = "free"
    /\ out' = Out("replace_key_collected", NULL, NULL, "", FALSE, "none", NULL,
                  NULL)
    /\ UNCHANGED <<channels, history, issued, cmds, clock, scanPc, scanRows,
                   scanNow, pings, notifications, whitelist, dashboards>>

\* DELETE FROM channels WHERE channel_id = ?  (history rows stay: foreign
\* keys are not enforced on the connection)
remove_channel_cmd(channel_id, user_id) ==
    /\ Command
    /\ UNCHANGED <<notifications, whitelist>>
    /\ UNCHANGED <<issued, dbLock>>
    /\ IF ~Authorized(channel_id, user_id)
       THEN /\ out' = Mgmt("remove_channel", channel_id, user_id, "refused")
            /\ UNCHANGED channels
       ELSE IF Locked
       THEN /\ out' = Mgmt("remove_channel", channel_id, user_id, "error")
            /\ UNCHANGED channels
       ELSE /\ channels' = [c \in DOMAIN channels \ {channel_id} |-> channels[c]]
            /\ out' = Mgmt("remove_channel", channel_id, user_id, "ok")

transfer_cmd(channel_id, user_id, new_owner_id) ==
    /\ Command
    /\ UNCHANGED <<notifications, whitelist>>
    /\ UNCHANGED <<issued, dbLock>>
    /\ IF ~Authorized(channel_id, user_id)
       THEN /\ out' = Mgmt("transfer", channel_id, user_id, "refused")
            /\ UNCHANGED channels
       ELSE IF Locked
       THEN /\ out' = Mgmt("transfer", channel_id, user_id, "error")
            /\ UNCHANGED channels
       ELSE /\ channels' = [channels EXCEPT ![channel_id].owner_id = new_owner_id]
            /\ out' = Mgmt("transfer", channel_id, user_id, "ok")

\* mutant: pausing also turns the device OFF
pause_cmd_resets_state(channel_id, user_id, paused) ==
    /\ Command
    /\ UNCHANGED <<notifications, whitelist>>
    /\ UNCHANGED <<issued, dbLock>>
    /\ IF ~Authorized(channel_id, user_id)
       THEN /\ out' = Mgmt("pause", channel_id, user_id, "refused")
            /\ UNCHANGED channels
       ELSE IF Locked
       THEN /\ out' = Mgmt("pause", channel_id, user_id, "error")
            /\ UNCHANGED channels
       ELSE /\ channels' = [channels EXCEPT ![channel_id].paused = paused,
                                            ![channel_id].is_power_on = 0]
            /\ out' = Mgmt("pause", channel_id, user_id, "ok")

pause_cmd(channel_id, user_id, paused) ==
    /\ Command
    /\ UNCHANGED <<notifications, whitelist>>
    /\ UNCHANGED <<issued, dbLock>>
    /\ IF ~Authorized(channel_id, user_id)
       THEN /\ out' = Mgmt("pause", channel_id, user_id, "refused")
            /\ UNCHANGED channels
       ELSE IF Locked
       THEN /\ out' = Mgmt("pause", channel_id, user_id, "error")
            /\ UNCHANGED channels
       ELSE /\ channels' = [channels EXCEPT ![channel_id].paused = paused]
            /\ out' = Mgmt("pause", channel_id, user_id, "ok")

\* pytz.all_timezones, two of its names; TzArgs adds a name that is not one
Timezones == {"Europe/Kiev", "UTC"}
TzArgs == Timezones \cup {"Nowhere"}

\* UPDATE channels SET timezone = ? WHERE channel_id = ?
set_timezone(chs, channel_id, tz) ==
    [chs EXCEPT ![channel_id].timezone = tz]

set_timezone_cmd(channel_id, user_id, tz) ==
    /\ Command
    /\ UNCHANGED <<notifications, whitelist>>
    /\ UNCHANGED <<issued, dbLock>>
    /\ IF ~Authorized(channel_id, user_id) \/ tz \notin Timezones
       THEN /\ out' = Mgmt("set_timezone", channel_id, user_id, "refused")
            /\ UNCHANGED channels
       ELSE IF Locked
       THEN /\ out' = Mgmt("set_timezone", channel_id, user_id, "error")
            /\ UNCHANGED channels
       ELSE /\ channels' = set_timezone(channels, channel_id, tz)
            /\ out' = Mgmt("set_timezone", channel_id, user_id, "ok")

\* /notify <channel_id> <on|off>: INSERT OR REPLACE INTO notifications
\* (user_id, channel_id, enabled); `enabled` is 1 for on and 0 for off
notify_cmd(channel_id, user_id, enabled) ==
    /\ Command
    /\ UNCHANGED <<channels, issued, whitelist, dbLock>>
    /\ IF ~Authorized(channel_id, user_id)
       THEN /\ out' = Mgmt("notify", channel_id, user_id, "refused")
            /\ UNCHANGED notifications
       ELSE IF Locked
       THEN /\ out' = Mgmt("notify", channel_id, user_id, "error")
            /\ UNCHANGED notifications
       ELSE /\ notifications' =
                  [p \in DOMAIN notifications \cup {<<user_id, channel_id>>} |->
                      IF p = <<user_id, channel_id>> THEN enabled
                      ELSE notifications[p]]
            /\ out' = Mgmt("notify", channel_id, user_id, "ok")

\* /whitelist_add <channel_id> <user_id>, from the call of the handler to
\* its return or to the await it suspends in with its connection open.  The
\* guard is is_owner alone, which also passes for an id without a row.
\* When the pair is in the table the INSERT raises IntegrityError on the
\* primary key, and the handler awaits the reply about it before `finally:
\* conn.close()`: it suspends with the connection inside the failed INSERT,
\* holding the write lock.
whitelist_add_cmd(channel_id, user_id, target_user_id) ==
    /\ Command
    /\ UNCHANGED <<channels, issued, notifications>>
    /\ IF ~is_owner(channel_id, user_id) \/ target_user_id = user_id
       THEN /\ out' = Mgmt("whitelist_add", channel_id, user_id, "refused")
            /\ UNCHANGED <<whitelist, dbLock>>
       ELSE IF Locked
       THEN /\ out' = Mgmt("whitelist_add", channel_id, user_id, "error")
            /\ UNCHANGED <<whitelist, dbLock>>
       ELSE IF <<channel_id, target_user_id>> \in DOMAIN whitelist
       THEN /\ out' = Mgmt("whitelist_add", channel_id, user_id, "refused")
            /\ dbLock' = "whitelist_add_cmd"
            /\ UNCHANGED whitelist
       ELSE /\ whitelist' =
                  [p \in DOMAIN whitelist \cup {<<channel_id, target_user_id>>} |->
                      IF p = <<channel_id, target_user_id>> THEN user_id
                      ELSE whitelist[p]]
            /\ out' = Mgmt("whitelist_add", channel_id, user_id, "ok")
            /\ UNCHANGED dbLock

\* the reply about the pair already listed returns or raises: `finally:
\* conn.close()` rolls the failed INSERT back and gives up the write lock
whitelist_add_cmd_close ==
    /\ dbLock = "whitelist_add_cmd"
    /\ dbLock' = "free"
    /\ out' = Out("whitelist_add_close", NULL, NULL, "", FALSE, "none", NULL,
                  NULL)
    /\ UNCHANGED <<channels, history, issued, cmds, clock, scanPc, scanRows,
                   scanNow, pings, notifications, whitelist, dashboards>>

\* /whitelist_remove <channel_id> <user_id>: the guard is is_owner alone; the
\* DELETE is committed before the reply, which tells whether a row was
\* removed (cursor.rowcount).  The handler holds no lock across its await.
whitelist_remove_cmd(channel_id, user_id, target_user_id) ==
    /\ Command
    /\ UNCHANGED <<channels, issued, notifications, dbLock>>
    /\ IF ~is_owner(channel_id, user_id)
       THEN /\ out' = Mgmt("whitelist_remove", channel_id, user_id, "refused")
            /\ UNCHANGED whitelist
       ELSE IF Locked
       THEN /\ out' = Mgmt("whitelist_remove", channel_id, user_id, "error")
            /\ UNCHANGED whitelist
       ELSE IF <<channel_id, target_user_id>> \notin DOMAIN whitelist
       THEN /\ out' = Mgmt("whitelist_remove", channel_id, user_id,
                           "not_found")
            /\ UNCHANGED whitelist
       ELSE /\ whitelist' =
                  [p \in DOMAIN whitelist \ {<<channel_id, target_user_id>>} |->
                      whitelist[p]]
            /\ out' = Mgmt("whitelist_remove", channel_id, user_id, "ok")

\* ------------------------------------------------------------------ queries
\* the reply of /status: the state shown, the time since the last request
\* and, when the row has one, the time since the last change of state
StatusOut(channel_id, status, is_on, time_since, status_duration) ==
    [op |-> "status", api_key |-> NULL, channel_id |-> channel_id,
     status |-> status, was_on |-> FALSE, notify |-> "none", ts |-> clock,
     written |-> NULL, is_on |-> is_on, time_since |-> time_since,
     status_duration |-> status_duration]

\* /status <channel_id>: the row is read and nothing is written
status_cmd(channel_id, user_id) ==
    /\ ~CommandSuspended
    /\ UNCHANGED <<channels, history, issued, cmds, clock, scanPc, scanRows,
                   scanNow, pings, dbLock, notifications, whitelist,
                   dashboards>>
    /\ IF ~Authorized(channel_id, user_id)
       THEN out' = StatusOut(channel_id, "refused", FALSE, NULL, NULL)
       ELSE LET config == channels[channel_id]
                now == clock
            IN  IF config.last_request_time = NULL
                THEN out' = StatusOut(channel_id, "no_data", FALSE, NULL, NULL)
                ELSE out' = StatusOut(channel_id, "ok",
                                      Truthy(config.is_power_on),
                                      now - config.last_request_time,
                                      IF Truthy(config.last_status_change)
                                      THEN now - config.last_status_change
                                      ELSE NULL)

\* the limit argument of /history: LIMIT with a negative value is no limit
Limits == {-1, 1, 2}

\* ORDER BY timestamp DESC: rows of equal timestamp stay in rowid order
RECURSIVE InsertByTimestampDesc(_, _)
InsertByTimestampDesc(sorted, e) ==
    IF sorted = <<>> THEN <<e>>
    ELSE IF e.timestamp > Head(sorted).timestamp THEN <<e>> \o sorted
    ELSE <<Head(sorted)>> \o InsertByTimestampDesc(Tail(sorted), e)

RECURSIVE OrderByTimestampDesc(_)
OrderByTimestampDesc(rows) ==
    IF rows = <<>> THEN <<>>
    ELSE InsertByTimestampDesc(
             OrderByTimestampDesc(SubSeq(rows, 1, Len(rows) - 1)),
             rows[Len(rows)])

\* SELECT status, timestamp FROM history WHERE channel_id = ? ORDER BY
\* timestamp DESC LIMIT ?
SelectHistoryDesc(channel_id, limit) ==
    LET all == OrderByTimestampDesc(history[channel_id])
    IN  IF limit < 0 \/ limit >= Len(all) THEN all ELSE SubSeq(all, 1, limit)

\* the reply of a query: the fields of Out and the rows it lists
QueryOut(op, channel_id, status, limit, rows) ==
    [op |-> op, api_key |-> NULL, channel_id |-> channel_id,
     status |-> status, was_on |-> FALSE, notify |-> "none", ts |-> clock,
     written |-> NULL, limit |-> limit, rows |-> rows]

\* /history <channel_id> <limit>
history_cmd(channel_id, user_id, limit) ==
    /\ ~CommandSuspended
    /\ UNCHANGED <<channels, history, issued, cmds, clock, scanPc, scanRows,
                   scanNow, pings, dbLock, notifications, whitelist,
                   dashboards>>
    /\ IF ~Authorized(channel_id, user_id)
       THEN out' = QueryOut("history", channel_id, "refused", limit, <<>>)
       ELSE LET rows == SelectHistoryDesc(channel_id, limit)
            IN  out' = QueryOut("history", channel_id,
                                IF rows = <<>> THEN "empty" ELSE "ok", limit, rows)

\* /export <channel_id> <csv|json>: the events in ascending order and the
\* current period (current state, now); nothing when there is no event
export_cmd(channel_id, user_id) ==
    /\ ~CommandSuspended
    /\ UNCHANGED <<channels, history, issued, cmds, clock, scanPc, scanRows,
                   scanNow, pings, dbLock, notifications, whitelist,
                   dashboards>>
    /\ IF ~Authorized(channel_id, user_id)
       THEN out' = QueryOut("export", channel_id, "refused", NULL, <<>>)
       ELSE LET rows == OrderByTimestamp(history[channel_id])
                current_status ==
                    IF Truthy(channels[channel_id].is_power_on) THEN 1 ELSE 0
            IN  IF rows = <<>>
                THEN out' = QueryOut("export", channel_id, "empty", NULL, <<>>)
                ELSE out' = QueryOut("export", channel_id, "ok", NULL,
                                     Append(rows, [status |-> current_status,
                                                   timestamp |-> clock]))

\* ------------------------------------------------------------- daily stats
Hour == 60 * 60
Day == 24 * Hour

\* 2023-10-29 01:00 UTC and 2024-03-31 01:00 UTC: Europe/Kiev goes from
\* summer time (EEST, UTC+3) to winter time (EET, UTC+2) and back
WinterStart == 19659 * Day + Hour
SummerStart == 19813 * Day + Hour

\* datetime.fromtimestamp(ts, pytz.timezone(timezone)).utcoffset(), in
\* seconds: the offset of the zone that is in force at the instant ts.  For
\* Europe/Kiev it is the one of the tz database at the instants explored:
\* the first days of 1970 (Moscow time, UTC+3, without summer time until
\* 1981) and the days around 2024-03-31, between the change to winter time
\* of 2023 and the one of 2024.
utcoffset(timezone, ts) ==
    IF timezone = "UTC" THEN 0
    ELSE IF WinterStart <= ts /\ ts < SummerStart THEN 2 * Hour
    ELSE 3 * Hour

\* tz = pytz.timezone(timezone); now = datetime.now(tz);
\* now.replace(hour=0, minute=0, second=0, microsecond=0).timestamp().
\* `now` carries the fixed offset that is in force at now, and replace keeps
\* it: the result is 00:00:00 of the local date of now read with `offset`,
\* the offset at now, also when another offset was in force at midnight.
today_start(now_ts, offset) ==
    now_ts - ((now_ts + offset) % Day)

NoStats == [defined |-> FALSE, uptime |-> 0, downtime |-> 0, outages |-> 0]

\* `if prev_status == 1: uptime += duration / else: downtime += duration`
Account(acc, status, duration) ==
    IF status = 1
    THEN [acc EXCEPT !.uptime = @ + duration]
    ELSE [acc EXCEPT !.downtime = @ + duration]

\* mutant: the loop never moves prev_time on from midnight
RECURSIVE StatsLoop_keeps_prev_time(_, _, _, _)
StatsLoop_keeps_prev_time(rows, prev_status, prev_time, acc) ==
    IF rows = <<>>
    THEN [acc |-> acc, prev_status |-> prev_status, prev_time |-> prev_time]
    ELSE LET e == Head(rows)
             a1 == Account(acc, prev_status, e.timestamp - prev_time)
             a2 == IF e.status = 0 /\ prev_status = 1
                   THEN [a1 EXCEPT !.outages = @ + 1] ELSE a1
         IN  StatsLoop_keeps_prev_time(Tail(rows), e.status, prev_time, a2)

\* `for status, timestamp in rows:` of get_daily_stats
RECURSIVE StatsLoop(_, _, _, _)
StatsLoop(rows, prev_status, prev_time, acc) ==
    IF rows = <<>>
    THEN [acc |-> acc, prev_status |-> prev_status, prev_time |-> prev_time]
    ELSE LET e == Head(rows)
             a1 == Account(acc, prev_status, e.timestamp - prev_time)
             a2 == IF e.status = 0 /\ prev_status = 1
                   THEN [a1 EXCEPT !.outages = @ + 1] ELSE a1
         IN  StatsLoop(Tail(rows), e.status, e.timestamp, a2)

\* get_daily_stats(channel_id, timezone) at the current clock.  The query
\* for the status at midnight (ORDER BY timestamp DESC LIMIT 1) returns, of
\* the rows that share the greatest timestamp, the one of lowest rowid.
get_daily_stats(channel_id, timezone) ==
    LET now_ts == clock
        start == today_start(now_ts, utcoffset(timezone, now_ts))
        all == IF channel_id \in DOMAIN history THEN history[channel_id] ELSE <<>>
        rows == OrderByTimestamp(SelectSeq(all, LAMBDA e : e.timestamp >= start))
        before == SelectSeq(all, LAMBDA e : e.timestamp < start)
        newest == SelectSeq(before,
                      LAMBDA e : \A i \in 1..Len(before) :
                                    before[i].timestamp <= e.timestamp)
        zero == [NoStats EXCEPT !.defined = TRUE]
    IN  IF rows = <<>> /\ before = <<>>
        THEN IF channel_id \notin DOMAIN channels
                \/ channels[channel_id].last_status_change = NULL
             THEN NoStats
             ELSE IF channels[channel_id].is_power_on = 1
                  THEN [zero EXCEPT !.uptime = now_ts - start]
                  ELSE [zero EXCEPT !.downtime = now_ts - start]
        ELSE LET prev_status == IF before # <<>> THEN Head(newest).status
                                ELSE Head(rows).status
                 acc0 == IF before # <<>> /\ prev_status = 0
                         THEN [zero EXCEPT !.outages = 1] ELSE zero
                 l == StatsLoop(rows, prev_status, start, acc0)
             IN  Account(l.acc, l.prev_status, now_ts - l.prev_time)

\* the answer of the dashboard: the status of the response and, on the page,
\* the zone of the row, its offset at the time of the request and the daily
\* stats
Page(channel_id, status, timezone, offset, stats) ==
    [op |-> "dashboard", channel_id |-> channel_id, status |-> status,
     timezone |-> timezone, utcoffset |-> offset, stats |-> stats]

\* the names get_chat reports for a channel: "@" and its username, or its
\* title, or "Channel " and its id
ChatNames == {"@site"}

\* mutant: reading the stats records an event
handle_dashboard_appends(channel_id) ==
    /\ UNCHANGED <<channels, issued, cmds, clock, scanPc, scanRows, scanNow,
                   pings, dbLock, notifications, whitelist>>
    /\ IF config_owner_id(channel_id) = NULL
       THEN /\ out' = Page(channel_id, "404", NULL, NULL, NoStats)
            /\ UNCHANGED <<history, dashboards>>
       ELSE LET timezone == channels[channel_id].timezone
            IN  /\ Cardinality(dashboards) < MaxDashboards
                /\ channel_id \notin dashboards
                /\ dashboards' = dashboards \cup {channel_id}
                /\ out' = Page(channel_id, "200", timezone,
                               utcoffset(timezone, clock),
                               get_daily_stats(channel_id, timezone))
                /\ history' = [history EXCEPT
                                 ![channel_id] =
                                    Append(@, [status |-> 0, timestamp |-> clock])]

\* GET /status/{channel_id}, from the call of the handler to its return or
\* to its await of get_chat.  An id without a row is answered 404 and no
\* stats are read.  For a stored device the handler reads the daily stats
\* in the zone of the row and suspends in get_chat (telegram_app is set
\* before the server starts); whatever follows, the response is 200 with
\* the page computed here.
handle_dashboard(channel_id) ==
    /\ UNCHANGED <<channels, history, issued, cmds, clock, scanPc, scanRows,
                   scanNow, pings, dbLock, notifications, whitelist>>
    /\ IF config_owner_id(channel_id) = NULL
       THEN /\ out' = Page(channel_id, "404", NULL, NULL, NoStats)
            /\ UNCHANGED dashboards
       ELSE LET timezone == channels[channel_id].timezone
            IN  /\ Cardinality(dashboards) < MaxDashboards
                /\ channel_id \notin dashboards
                /\ dashboards' = dashboards \cup {channel_id}
                /\ out' = Page(channel_id, "200", timezone,
                               utcoffset(timezone, clock),
                               get_daily_stats(channel_id, timezone))

\* the page is sent under the name of the channel
Named(channel_id, channel_name, stored) ==
    [op |-> "dashboard_name", channel_id |-> channel_id, status |-> "200",
     channel_name |-> channel_name, stored |-> stored]

\* get_chat returns with the name of the channel: the handler stores it
\* with update_channel_name, an UPDATE of the row of channel_id that changes
\* nothing when the row is gone, and returns the page.  When another
\* connection holds the write lock the UPDATE raises, and `except Exception`
\* takes "Channel <id>" as the name.
handle_dashboard_named(channel_id, channel_name) ==
    /\ channel_id \in dashboards
    /\ dashboards' = dashboards \ {channel_id}
    /\ UNCHANGED <<history, issued, cmds, clock, scanPc, scanRows, scanNow,
                   pings, dbLock, notifications, whitelist>>
    /\ IF Locked
       THEN /\ UNCHANGED channels
            /\ out' = Named(channel_id, "Channel", FALSE)
       ELSE /\ channels' = update_channel_name(channels, channel_id,
                                               channel_name)
            /\ out' = Named(channel_id, channel_name, TRUE)

\* get_chat raises: `except Exception` takes "Channel <id>" as the name,
\* nothing is stored, and the handler returns the page
handle_dashboard_unnamed(channel_id) ==
    /\ channel_id \in dashboards
    /\ dashboards' = dashboards \ {channel_id}
    /\ UNCHANGED <<channels, history, issued, cmds, clock, scanPc, scanRows,
                   scanNow, pings, dbLock, notifications, whitelist>>
    /\ out' = Named(channel_id, "Channel", FALSE)

\* The stored states the stats are read from.  Midnight is 2024-03-31
\* 00:00 UTC: on that day Europe/Kiev changes to summer time at 01:00 UTC,
\* so its local day began at 22:00 UTC of the day before, under UTC+2, and
\* goes on under UTC+3.  The events are at noon of the day before, at 21:00
\* and 22:00 UTC (the local midnight of Europe/Kiev read with the offset of
\* the afternoon and with the one of the night), at the UTC midnight, and in
\* the morning; the stats are read in the night before the change of the
\* offset and in the morning after it.
Midnight == 19813 * Day
Early == Midnight - Day \div 2
StatTimes ==
    {Early, Midnight - 3 * Hour, Midnight - 2 * Hour, Midnight,
     Midnight + 8 * Hour, Midnight + 8 * Hour + 10 * 60, Midnight + 10 * Hour}
EvalTimes == {Midnight - Hour, Midnight + 9 * Hour, Midnight + 10 * Hour}
StatEvents == [status : {0, 1}, timestamp : StatTimes]

RECURSIVE Histories(_)
Histories(n) ==
    IF n = 0 THEN {<<>>}
    ELSE Histories(n - 1)
         \cup {Append(h, e) : h \in {g \in Histories(n - 1) : Len(g) = n - 1},
                              e \in StatEvents}

\* Channel 1 with any history of at most MaxHistory rows; channel 2 freshly
\* created.  No row is in the future, and an OFF row is older than the grace
\* period (check_timeouts stamps it with a last_request_time that expired).
\* The row of channel 1 is missing (removed), or as INSERT leaves it
\* (created, or created again over the rows of a removed channel), or as
\* update_power_status left it when it appended the latest history row; its
\* zone is the default or the one /set_timezone stored.
InitStats ==
    /\ clock \in EvalTimes
    /\ \E h \in Histories(MaxHistory), row \in {"removed", "created", "written"},
          tz \in Timezones :
          /\ row = "removed" => tz = "Europe/Kiev"
          /\ \A i \in 1..Len(h) :
                /\ h[i].timestamp <= clock
                /\ h[i].status = 0 => h[i].timestamp + timeout_seconds < clock
          /\ row = "written" => h # <<>>
          /\ history = [c \in ChannelIds |-> IF c = 1 THEN h ELSE <<>>]
          /\ channels =
                [c \in (IF row = "removed" THEN ChannelIds \ {1} ELSE ChannelIds) |->
                    IF c = 1 /\ row = "written"
                    THEN [NewRow(c, c) EXCEPT
                            !.is_power_on = h[Len(h)].status,
                            !.last_status_change = h[Len(h)].timestamp,
                            !.last_request_time = h[Len(h)].timestamp,
                            !.timezone = tz]
                    ELSE IF c = 1
                    THEN [NewRow(c, c) EXCEPT !.timezone = tz]
                    ELSE NewRow(c, c)]
    /\ issued = ChannelIds
    /\ cmds = 0
    /\ scanPc = "sleep"
    /\ scanRows = <<>>
    /\ scanNow = NULL
    /\ pings = {}
    /\ dbLock = "free"
    /\ notifications = <<>>
    /\ whitelist = <<>>
    /\ dashboards = {}
    /\ out = Out("init", NULL, NULL, "", FALSE, "none", NULL, NULL)

NextStats ==
    \/ \E channel_id \in ChannelIds : handle_dashboard(channel_id)
    \/ \E channel_id \in ChannelIds, channel_name \in ChatNames :
          handle_dashboard_named(channel_id, channel_name)
    \/ \E channel_id \in ChannelIds : handle_dashboard_unnamed(channel_id)

SpecStats == InitStats /\ [][NextStats]_vars

\* the subscriptions at the start: none, or the one that /notify 1 on of
\* the owner of channel 1 stores
InitNotifications == {<<>>, [p \in {<<1, 1>>} |-> 1]}

\* two channels as /create_channel stores them
Init ==
    /\ channels = [c \in ChannelIds |-> NewRow(c, c)]
    /\ history = [c \in ChannelIds |-> <<>>]
    /\ issued = ChannelIds
    /\ cmds = 0
    /\ clock = StartTime
    /\ scanPc = "sleep"
    /\ scanRows = <<>>
    /\ scanNow = NULL
    /\ pings = {}
    /\ dbLock = "free"
    /\ notifications \in InitNotifications
    /\ whitelist = <<>>
    /\ dashboards = {}
    /\ out = Out("init", NULL, NULL, "", FALSE, "none", NULL, NULL)

Next ==
    \/ Tick
    \/ \E api_key \in KnownKeys \cup {NoKey} : handle_ping(api_key)
    \/ handle_ping_resume
    \/ check_timeouts_tick
    \/ check_timeouts_resume
    \/ check_timeouts_send_failed
    \/ \E c \in ChannelIds, u \in UserIds : create_channel_cmd(c, u)
    \/ \E c \in ChannelIds, u \in UserIds, k \in KnownKeys : import_channel_cmd(c, u, k)
    \/ import_channel_cmd_close
    \/ \E c \in ChannelIds, u \in UserIds : regenerate_key_cmd(c, u)
    \/ \E c \in ChannelIds, u \in UserIds, k \in KnownKeys : replace_key_cmd(c, u, k)
    \/ replace_key_cmd_collected
    \/ \E c \in ChannelIds, u \in UserIds, t \in UserIds :
          whitelist_add_cmd(c, u, t)
    \/ whitelist_add_cmd_close
    \/ \E c \in ChannelIds, u \in UserIds, t \in UserIds :
          whitelist_remove_cmd(c, u, t)
    \/ \E c \in ChannelIds, u \in UserIds : remove_channel_cmd(c, u)
    \/ \E c \in ChannelIds, u \in UserIds, n \in UserIds : transfer_cmd(c, u, n)
    \/ \E c \in ChannelIds, u \in UserIds, p \in {0, 1} : pause_cmd(c, u, p)
    \/ \E c \in ChannelIds, u \in UserIds, tz \in TzArgs :
          set_timezone_cmd(c, u, tz)

Spec == Init /\ [][Next]_vars

\* heartbeats, clock and scanner with the storage failures of both; no
\* management command is issued
NextCore ==
    \/ Tick
    \/ \E api_key \in KnownKeys \cup {NoKey} : handle_ping(api_key)
    \/ handle_ping_resume
    \/ \E api_key \in KnownKeys, at \in StorageCalls :
          handle_ping_storage_error(api_key, at)
    \/ check_timeouts_tick
    \/ check_timeouts_resume
    \/ check_timeouts_send_failed
    \/ check_timeouts_tick_error
    \/ check_timeouts_resume_error

SpecCore == Init /\ [][NextCore]_vars

\* heartbeats, clock and scanner while the store works
NextLive ==
    \/ Tick
    \/ \E api_key \in KnownKeys \cup {NoKey} : handle_ping(api_key)
    \/ handle_ping_resume
    \/ check_timeouts_tick
    \/ check_timeouts_resume
    \/ check_timeouts_send_failed

\* heartbeats, clock and scanner, and the owners' queries
NextQuery ==
    \/ NextLive
    \/ \E c \in ChannelIds, u \in UserIds, limit \in Limits : history_cmd(c, u, limit)
    \/ \E c \in ChannelIds, u \in UserIds : export_cmd(c, u)

SpecQuery == Init /\ [][NextQuery]_vars

\* The stored states the commands and the queries are issued in, at the
\* last reading of the clock.  Channel 1 is as /create_channel stored it
\* ("created"), or as its only heartbeat, at the first reading, left it
\* ("on"), or as the sweep left it after that heartbeat expired ("off");
\* channel 2 is as /create_channel stored it.
InitFrame ==
    /\ clock = MaxTime
    /\ \E row \in {"created", "on", "off"} :
          /\ channels =
                [c \in ChannelIds |->
                    IF c = 1 /\ row # "created"
                    THEN [NewRow(c, c) EXCEPT
                            !.last_request_time = StartTime,
                            !.is_power_on = IF row = "on" THEN 1 ELSE 0,
                            !.last_status_change = StartTime]
                    ELSE NewRow(c, c)]
          /\ history =
                [c \in ChannelIds |->
                    IF c = 1 /\ row = "on"
                    THEN <<[status |-> 1, timestamp |-> StartTime]>>
                    ELSE IF c = 1 /\ row = "off"
                    THEN <<[status |-> 1, timestamp |-> StartTime],
                           [status |-> 0, timestamp |-> StartTime]>>
                    ELSE <<>>]
    /\ issued = ChannelIds
    /\ cmds = 0
    /\ scanPc = "sleep"
    /\ scanRows = <<>>
    /\ scanNow = NULL
    /\ pings = {}
    /\ dbLock = "free"
    /\ notifications = <<>>
    /\ whitelist = <<>>
    /\ dashboards = {}
    /\ out = Out("init", NULL, NULL, "", FALSE, "none", NULL, NULL)

\* the commands that change a setting of a device, of its notifications or
\* of its whitelist, and the queries
NextFrame ==
    \/ \E c \in ChannelIds, u \in UserIds, p \in {0, 1} : pause_cmd(c, u, p)
    \/ \E c \in ChannelIds, u \in UserIds, tz \in TzArgs :
          set_timezone_cmd(c, u, tz)
    \/ \E c \in ChannelIds, u \in UserIds : regenerate_key_cmd(c, u)
    \/ \E c \in ChannelIds, u \in UserIds, k \in KnownKeys : replace_key_cmd(c, u, k)
    \/ replace_key_cmd_collected
    \/ \E c \in ChannelIds, u \in UserIds, n \in UserIds : transfer_cmd(c, u, n)
    \/ \E c \in ChannelIds, u \in UserIds, e \in {0, 1} : notify_cmd(c, u, e)
    \/ \E c \in ChannelIds, u \in UserIds, t \in UserIds :
          whitelist_add_cmd(c, u, t)
    \/ whitelist_add_cmd_close
    \/ \E c \in ChannelIds, u \in UserIds, t \in UserIds :
          whitelist_remove_cmd(c, u, t)
    \/ \E c \in ChannelIds, u \in UserIds : status_cmd(c, u)
    \/ \E c \in ChannelIds, u \in UserIds, limit \in Limits : history_cmd(c, u, limit)
    \/ \E c \in ChannelIds, u \in UserIds : export_cmd(c, u)
    \/ \E c \in ChannelIds : handle_dashboard(c)
    \/ \E c \in ChannelIds, channel_name \in ChatNames :
          handle_dashboard_named(c, channel_name)
    \/ \E c \in ChannelIds : handle_dashboard_unnamed(c)

SpecFrame == InitFrame /\ [][NextFrame]_vars

\* heartbeats, clock and scanner, and the commands that move a key
NextKeys ==
    \/ TickLate
    \/ \E api_key \in KnownKeys : handle_ping(api_key)
    \/ handle_ping_resume
    \/ check_timeouts_tick
    \/ check_timeouts_resume
    \/ \E c \in ChannelIds, u \in UserIds : regenerate_key_cmd(c, u)
    \/ \E c \in ChannelIds, u \in UserIds, k \in KnownKeys : replace_key_cmd(c, u, k)
    \/ replace_key_cmd_collected

SpecKeys == Init /\ [][NextKeys]_vars

\* the event loop keeps running: time passes, asyncio.sleep(30) returns, and
\* an awaited send_message returns or raises, in the sweep and in a handler
Fairness ==
    /\ WF_vars(Tick)
    /\ WF_vars(check_timeouts_tick)
    /\ WF_vars(check_timeouts_resume \/ check_timeouts_send_failed)
    /\ WF_vars(handle_ping_resume)

SpecLive == Init /\ [][NextLive]_vars /\ Fairness

\* the scheduling of SpecLive with the storage failures of SpecCore
SpecFaulty == Init /\ [][NextCore]_vars /\ Fairness

\* ------------------------------------------------------------------ claims
Last(seq) == seq[Len(seq)]

\* the last operation was a heartbeat that the handler accepted: its key
\* matched a device, and the handler returned 200 or went on to the commit
\* and the notification
Accepted(o) == o.op = "ping" /\ o.channel_id # NULL

\* the last operation was a scanner write that changed a row
ScannerCommitted == out.op \in {"scan_off", "scan_error"} /\ out.written # NULL

\* C1: for every device, its history events read in timestamp order never
\* show two consecutive events with the same state.
C1_Alternation ==
    \A c \in DOMAIN channels :
        LET h == OrderByTimestamp(history[c])
        IN  \A i \in 1..(Len(h) - 1) : h[i].status # h[i + 1].status

\* C2: for every device, the timestamps of its history events are strictly
\* increasing in append order.
C2_StrictlyIncreasing ==
    \A c \in DOMAIN channels :
        \A i \in 1..(Len(history[c]) - 1) :
            history[c][i].timestamp < history[c][i + 1].timestamp

\* C3: whenever the scanner commits an OFF transition, the device's stored
\* state was ON and the scan time minus the stored last_seen exceeds the
\* grace period.
C3_CommitOnlyWhenExpired ==
    ScannerCommitted =>
        /\ out.was_on
        /\ Truthy(channels[out.written].last_request_time)
        /\ scanNow - channels[out.written].last_request_time > timeout_seconds

\* C4: the scanner never transitions a device that at the commit is already
\* OFF, is paused or has no last_seen.
C4_SkipsOffPausedUnseen ==
    ScannerCommitted =>
        /\ out.was_on
        /\ channels[out.written].paused = 0
        /\ channels[out.written].last_request_time # NULL

\* C5: right after the scanner commits an OFF transition the device is OFF,
\* last_change equals its stored last_seen and its latest history event is
\* (OFF, last_seen).
C5_OffAtLastSeen ==
    ScannerCommitted =>
        LET d == channels[out.written]
        IN  /\ d.is_power_on = 0
            /\ d.last_status_change = d.last_request_time
            /\ history[out.written] # <<>>
            /\ Last(history[out.written]) =
                  [status |-> 0, timestamp |-> d.last_request_time]

\* C6: a heartbeat accepted for a device that is ON appends no history
\* event, leaves state and last_change (and every other column but
\* last_seen) unchanged and emits no notification.
C6_Idempotent ==
    [][(/\ Accepted(out')
        /\ out'.channel_id \in DOMAIN channels
        /\ channels[out'.channel_id].is_power_on = 1)
       => (/\ history' = history
           /\ out'.notify = "none"
           /\ channels' = [channels EXCEPT ![out'.channel_id].last_request_time
                                                = clock])]_vars

C6_Witness ==
    /\ Accepted(out) /\ out.was_on
    /\ channels[out.channel_id].last_request_time
          > channels[out.channel_id].last_status_change
    /\ Len(history[out.channel_id]) = 1

\* C7: a heartbeat accepted for a device that is not ON sets state = ON and
\* last_change = arrival time and appends exactly one event (ON, arrival
\* time) to that device's history.
C7_Promotes ==
    [][(/\ Accepted(out')
        /\ out'.channel_id \in DOMAIN channels
        /\ channels[out'.channel_id].is_power_on # 1)
       => (/\ channels'[out'.channel_id].is_power_on = 1
           /\ channels'[out'.channel_id].last_status_change = clock
           /\ history' = [history EXCEPT ![out'.channel_id] =
                             Append(@, [status |-> 1, timestamp |-> clock])])]_vars

C7_Witness ==
    /\ Accepted(out) /\ ~out.was_on
    /\ Len(history[out.channel_id]) = 3
    /\ history[out.channel_id][2].status = 0
    /\ Last(history[out.channel_id]) = [status |-> 1, timestamp |-> clock]

\* C8: a heartbeat whose token matches no device is answered 403 and
\* changes no device row and no history.
C8_UnknownKeyRejected ==
    [][(/\ out'.op = "ping"
        /\ out'.api_key # NoKey
        /\ \A c \in DOMAIN channels : channels[c].api_key # out'.api_key)
       => (/\ out'.status = "403"
           /\ channels' = channels
           /\ history' = history)]_vars

C8_Witness ==
    /\ out.op = "ping" /\ out.status = "403"
    /\ \E c \in DOMAIN channels : channels[c].is_power_on = 1

\* C9: every accepted heartbeat leaves the device's last_seen equal to its
\* arrival time, whatever the prior state and the paused flag.
C9_LastSeenIsArrival ==
    Accepted(out) =>
        /\ out.channel_id \in DOMAIN channels
        /\ channels[out.channel_id].api_key = out.api_key
        /\ channels[out.channel_id].last_request_time = clock

C9_Witness ==
    /\ Accepted(out)
    /\ channels[out.channel_id].paused = 1
    /\ channels[out.channel_id].is_power_on = 1
    /\ channels[out.channel_id].last_status_change < clock

\* C10: a failure while the scanner processes one device leaves no expired
\* device of the same sweep unprocessed.
C10_FailureIsolated ==
    scanPc = "dead" =>
        \A i \in 1..Len(scanRows) : ~Expired(scanRows[i], scanNow)

\* the readings of the clock
Times ==
    {r \in {StartTime + k * TickStep : k \in 0..(MaxTime \div TickStep)} :
        r <= MaxTime}

\* the readings that a later reading of the explored runs follows by more
\* than the grace period
LiveTimes == {t \in Times : \E r \in Times : r - t > timeout_seconds}

\* C11: a device that is ON, not paused and last seen at t, and that receives
\* no further heartbeat, eventually is OFF with the event (OFF, t) appended
\* to its history, when time keeps passing and the scanner keeps ticking.
C11_EventuallyOff ==
    \A c \in ChannelIds, t \in LiveTimes :
        (/\ channels[c].is_power_on = 1
         /\ channels[c].paused = 0
         /\ channels[c].last_request_time = t
         /\ Len(history[c]) < MaxHistory)
        ~> (\/ channels[c].last_request_time # t
            \/ /\ channels[c].is_power_on = 0
               /\ Last(history[c]) = [status |-> 0, timestamp |-> t])

C11_Witness ==
    \E c \in ChannelIds :
        /\ channels[c].last_request_time \in LiveTimes
        /\ channels[c].is_power_on = 0
        /\ history[c] = <<[status |-> 1, timestamp |-> channels[c].last_request_time],
                          [status |-> 0, timestamp |-> channels[c].last_request_time]>>
        /\ scanPc = "sleep"

\* C12: after a sweep was cut short by a failure the scanner ticks again,
\* and every device that is still ON, unpaused and expired is turned OFF by
\* a later tick unless a heartbeat arrives for it.
C12_SelfHealing ==
    \A c \in ChannelIds, t \in LiveTimes :
        (/\ out.op = "scan_error"
         /\ channels[c].is_power_on = 1
         /\ channels[c].paused = 0
         /\ channels[c].last_request_time = t
         /\ Len(history[c]) < MaxHistory)
        ~> (\/ channels[c].last_request_time # t
            \/ channels[c].is_power_on = 0)

\* C13: in every stored state a device's state and last_change match its
\* latest history event: a device that is ON, or that has a last_change, has
\* a latest event of that state and time, and a device with history has the
\* state of its latest event.
C13_StateMatchesHistory ==
    \A c \in DOMAIN channels :
        /\ (channels[c].is_power_on = 1 \/ channels[c].last_status_change # NULL)
              => /\ history[c] # <<>>
                 /\ Last(history[c]) =
                       [status |-> channels[c].is_power_on,
                        timestamp |-> channels[c].last_status_change]
        /\ history[c] # <<>>
              => Last(history[c]).status = channels[c].is_power_on

\* C14: a heartbeat for a device that is not ON whose processing is aborted
\* by a storage failure before the transition is committed commits nothing:
\* the device rows (last_seen, state, last_change) and the history are as
\* before the heartbeat.
C14_FailedHeartbeatCommitsNothing ==
    [][(/\ out'.op = "ping_error"
        /\ out'.written = NULL
        /\ out'.channel_id \in DOMAIN channels
        /\ channels[out'.channel_id].is_power_on # 1)
       => (channels' = channels /\ history' = history)]_vars

\* the last operation sent, or tried to send, a transition notification
Notified == out.notify \in {"recovered", "recover_failed", "lost"}

\* C15: a "recovered" or "lost power" notification is emitted only by a
\* heartbeat or scan step that committed the transition of a device.
C15_NotifyOnlyAfterCommit ==
    Notified => out.written # NULL

\* C16: a failed delivery leaves the committed transition as it is and is
\* not followed by a second attempt.  For a heartbeat: the step in which the
\* send fails writes no device row and no history event, the event (ON,
\* arrival time) that the handler committed is in the history of its
\* device, and the handler is gone.  For the scanner: the step that handles
\* the failure leaves the row and the history of the device whose delivery
\* failed as the transition committed them, writes nothing under the key of
\* its snapshot row, and does not queue the row again.
C16_FailedDeliveryKeepsCommit ==
    [][/\ (out'.notify = "recover_failed")
          => (/\ channels' = channels
              /\ history' = history
              /\ \E i \in 1..Len(history[out'.channel_id]) :
                    history[out'.channel_id][i] =
                        [status |-> 1, timestamp |-> out'.ts]
              /\ \A p \in pings \ pings' :
                    p.channel_id = out'.channel_id /\ p.now = out'.ts
              /\ pings' \subseteq pings /\ pings' # pings)
       /\ (scanPc = "await" /\ out'.status = "send_failed")
          => LET row == Head(scanRows)
             IN  /\ out'.op = "scan_off" => out'.api_key # row.api_key
                 /\ \A i \in 1..Len(scanRows') : scanRows'[i] # row
                 /\ row.channel_id \in DOMAIN channels
                      => /\ channels'[row.channel_id] = channels[row.channel_id]
                         /\ history'[row.channel_id] = history[row.channel_id]]_vars

\* C17: a heartbeat is answered in one of three ways: 400 without a token,
\* 403 with a token no device holds, 200 with a token a device holds, also
\* when the heartbeat turned the device ON and the delivery of the
\* notification failed.
C17_ThreeOutcomes ==
    (out.op \in {"ping", "ping_response"} /\ out.status # "") =>
        out.status = IF out.api_key = NoKey THEN "400"
                     ELSE IF out.channel_id = NULL THEN "403"
                     ELSE "200"

\* C18: every OFF event the scanner appends carries a timestamp that is at
\* most the time of its sweep and at least the device's stored last_seen.
C18_MonotonicOutageTiming ==
    ScannerCommitted =>
        /\ out.ts <= scanNow
        /\ out.ts >= channels[out.written].last_request_time

\* the last operation was a dashboard request that was answered with the
\* page of a stored device
Answered == out.op = "dashboard" /\ out.status = "200"

\* the start of the local calendar day of the instant ts in the zone: the
\* latest instant not after ts at which the clocks of the zone, under the
\* offset in force at that instant, show 00:00:00
LocalMidnight(timezone, ts) ==
    LET days == {(ts \div Day) - 1, ts \div Day, (ts \div Day) + 1}
        starts == {d * Day - offset :
                      d \in days, offset \in {0, 2 * Hour, 3 * Hour}}
        midnights == {m \in starts :
                         m <= ts /\ (m + utcoffset(timezone, m)) % Day = 0}
    IN  CHOOSE m \in midnights : \A n \in midnights : n <= m

\* C19: whenever the daily stats of a device are defined, uptime + downtime
\* is exactly the time elapsed from the device's local midnight to the
\* evaluation time.
C19_Conservation ==
    (Answered /\ out.stats.defined) =>
        out.stats.uptime + out.stats.downtime
            = clock - LocalMidnight(out.timezone, clock)

\* Scenario D: the device was turned ON before yesterday, went OFF at 08:00
\* today and ON again at 08:10, and its stats are read at 09:00
ScenarioD ==
    /\ Answered
    /\ out.utcoffset = 0
    /\ clock = Midnight + 9 * Hour
    /\ out.channel_id \in DOMAIN history
    /\ history[out.channel_id] =
          <<[status |-> 1, timestamp |-> Early],
            [status |-> 0, timestamp |-> Midnight + 8 * Hour],
            [status |-> 1, timestamp |-> Midnight + 8 * Hour + 10 * 60]>>

\* C20 as the specification states it: in Scenario D the stats read at 09:00
\* are uptime = 50 min, downtime = 10 min, outages = 1.
C20_ScenarioD ==
    ScenarioD =>
        out.stats = [defined |-> TRUE, uptime |-> 50 * 60, downtime |-> 10 * 60,
                     outages |-> 1]

\* C20, amended: in Scenario D the stats read at 09:00 are uptime = 8 h 50
\* min (the whole time since midnight but the outage), downtime = 10 min,
\* outages = 1.
C20_ScenarioD_Amended ==
    ScenarioD =>
        out.stats = [defined |-> TRUE, uptime |-> 8 * Hour + 50 * 60,
                     downtime |-> 10 * 60, outages |-> 1]

C20_Witness ==
    ScenarioD /\ out.stats.defined /\ out.stats.outages = 1

\* ---- the rows behind the stats that the last dashboard request read
\* the local midnight of the device at the time of the request
StatStart == LocalMidnight(out.timezone, clock)
StatRows ==
    IF out.channel_id \in DOMAIN history THEN history[out.channel_id] ELSE <<>>
\* today's rows in timestamp order, and the rows before local midnight
TodayRows == OrderByTimestamp(SelectSeq(StatRows, LAMBDA e : e.timestamp >= StatStart))
BeforeRows == SelectSeq(StatRows, LAMBDA e : e.timestamp < StatStart)
\* the most recent event strictly before local midnight: of the events
\* that carry the latest timestamp, the one that was appended last
LastBefore ==
    Last(SelectSeq(BeforeRows,
                   LAMBDA e : \A i \in 1..Len(BeforeRows) :
                                 BeforeRows[i].timestamp <= e.timestamp))

\* Scenario C: the device went OFF before today, its first event today is
\* the ON of a heartbeat at 10:00, and its stats are read at 10:00
ScenarioC ==
    /\ Answered
    /\ out.utcoffset = 0
    /\ clock = Midnight + 10 * Hour
    /\ StatRows = <<[status |-> 0, timestamp |-> Early],
                    [status |-> 1, timestamp |-> Midnight + 10 * Hour]>>

\* C21: in Scenario C the stats read at 10:00 are downtime = 10 h, uptime =
\* 0, outages = 1; and whenever the last event before local midnight is OFF
\* and the first event of the day is ON, the span from midnight to that
\* event is downtime and the carried-over outage is counted (exactly that
\* span, the rest as uptime, and one outage when it is the day's only event).
C21_ScenarioC ==
    /\ ScenarioC =>
          out.stats = [defined |-> TRUE, uptime |-> 0, downtime |-> 10 * Hour,
                       outages |-> 1]
    /\ (/\ Answered
        /\ BeforeRows # <<>> /\ LastBefore.status = 0
        /\ TodayRows # <<>> /\ TodayRows[1].status = 1)
       => /\ out.stats.defined
          /\ out.stats.outages >= 1
          /\ out.stats.downtime >= TodayRows[1].timestamp - StatStart
          /\ Len(TodayRows) = 1
                => /\ out.stats.downtime = TodayRows[1].timestamp - StatStart
                   /\ out.stats.uptime = clock - TodayRows[1].timestamp
                   /\ out.stats.outages = 1

\* the state of the device at local midnight: the state carried by the most
\* recent event strictly before midnight and, when there is none, the
\* current state of the device
MidnightStatus ==
    IF BeforeRows # <<>> THEN LastBefore.status
    ELSE channels[out.channel_id].is_power_on

\* the events of the day that turn the device from ON to OFF
OnOffTransitions ==
    {i \in 1..Len(TodayRows) :
        /\ TodayRows[i].status = 0
        /\ (IF i = 1 THEN MidnightStatus ELSE TodayRows[i - 1].status) = 1}

\* C22: the outage count of the daily stats is the number of ON->OFF
\* transitions among the events since local midnight, plus 1 exactly when
\* the device was OFF at local midnight.
C22_OutageCount ==
    (Answered /\ out.stats.defined) =>
        out.stats.outages =
            Cardinality(OnOffTransitions) + (IF MidnightStatus = 0 THEN 1 ELSE 0)

\* uptime and downtime of the day when the device is taken to be in state
\* `status` at local midnight
StatsFrom(status) ==
    LET l == StatsLoop(TodayRows, status, StatStart,
                       [NoStats EXCEPT !.defined = TRUE])
    IN  Account(l.acc, l.prev_status, clock - l.prev_time)

\* the rows are the log of one device since its first heartbeat: ON first,
\* then alternating, in the order of their timestamps
TransitionLog(h) ==
    /\ h # <<>> /\ h[1].status = 1
    /\ \A i \in 1..(Len(h) - 1) :
          h[i].status # h[i + 1].status /\ h[i].timestamp <= h[i + 1].timestamp

\* C23: the stats take as the state at local midnight the state of the most
\* recent event strictly before midnight, and without such an event the
\* device's current state; the span from midnight to the first event of the
\* day is uptime or downtime according to that state.
C23_StateAtMidnight ==
    (/\ Answered /\ out.stats.defined
     /\ out.channel_id \in DOMAIN channels
     /\ channels[out.channel_id].last_status_change # NULL
     /\ TransitionLog(StatRows))
    => LET assumed == IF BeforeRows # <<>> THEN LastBefore.status
                      ELSE channels[out.channel_id].is_power_on
       IN  /\ out.stats.uptime = StatsFrom(assumed).uptime
           /\ out.stats.downtime = StatsFrom(assumed).downtime

\* C24: for a device whose only history event lies in the current local day,
\* the ON event of its first heartbeat, the span from midnight to that event
\* is downtime, the rest uptime, and the carried-over outage is counted once.
C24_FirstEventToday ==
    (/\ Answered
     /\ Len(StatRows) = 1 /\ Len(TodayRows) = 1
     /\ StatRows[1].status = 1)
    => /\ out.stats.defined
       /\ out.stats.outages = 1
       /\ out.stats.downtime = StatRows[1].timestamp - StatStart
       /\ out.stats.uptime = clock - StatRows[1].timestamp

\* C25: a device that never received a heartbeat (no last_seen) has no
\* history event and no last_change, is not ON, and has no daily stats, in
\* whatever timezone they are read; also a device created again under the
\* id of a removed one.
C25_ScenarioA ==
    \A c \in DOMAIN channels :
        channels[c].last_request_time = NULL
        => /\ history[c] = <<>>
           /\ channels[c].last_status_change = NULL
           /\ channels[c].is_power_on = 0
           /\ \A timezone \in Timezones :
                 ~get_daily_stats(c, timezone).defined

\* C26: the step that removes a device leaves no history event of its id,
\* and a device created under an id starts with an empty history.
C26_DeleteCascades ==
    [][\A c \in ChannelIds :
          /\ (c \in DOMAIN channels /\ c \notin DOMAIN channels')
                => history'[c] = <<>>
          /\ (c \notin DOMAIN channels /\ c \in DOMAIN channels')
                => history'[c] = <<>>]_vars

\* the state of a device record: UNKNOWN while it has no last_seen
State(chs, c) ==
    IF chs[c].last_request_time = NULL THEN "UNKNOWN"
    ELSE IF chs[c].is_power_on = 1 THEN "ON" ELSE "OFF"

\* C27: in every step and for every device record that the step keeps,
\* UNKNOWN is not re-entered, the state left from UNKNOWN is ON, OFF is
\* entered from ON only, and an event appended to the history of the device
\* is an ON event unless the device was ON.
C27_StateMachine ==
    [][\A c \in DOMAIN channels \cap DOMAIN channels' :
          /\ State(channels, c) # "UNKNOWN" => State(channels', c) # "UNKNOWN"
          /\ (State(channels, c) = "UNKNOWN" /\ State(channels', c) # "UNKNOWN")
                => State(channels', c) = "ON"
          /\ (State(channels, c) # "OFF" /\ State(channels', c) = "OFF")
                => State(channels, c) = "ON"
          /\ (Len(history'[c]) > Len(history[c]) /\ Last(history'[c]).status = 0)
                => State(channels, c) = "ON"]_vars

\* the commands that change a setting of a device, of its notifications or
\* of its whitelist
ManagementOps ==
    {"pause", "set_timezone", "regenerate_key", "replace_key", "transfer",
     "notify", "whitelist_add", "whitelist_add_close", "whitelist_remove"}

\* the queries: /status, /history, /export and the dashboard, whose handler
\* answers in two steps
QueryOps == {"status", "history", "export", "dashboard", "dashboard_name"}

\* the fields of a device record that only heartbeats and the sweep write
Observed(chs) ==
    [c \in DOMAIN chs |->
        <<chs[c].is_power_on, chs[c].last_request_time,
          chs[c].last_status_change>>]

\* C28 as the specification states it: a step of /pause, /set_timezone,
\* /regenerate_key, /replace_key, /transfer, /notify or of a whitelist
\* command, accepted or refused, leaves the state, last_seen and
\* last_change of every device and the whole history as they were, and a
\* step of a query (/status, /history, /export, the dashboard) changes
\* nothing that is stored.
C28_ManagementFrame ==
    [][/\ out'.op \in ManagementOps
            => /\ Observed(channels') = Observed(channels)
               /\ history' = history
       /\ out'.op \in QueryOps
            => /\ channels' = channels
               /\ history' = history
               /\ notifications' = notifications
               /\ whitelist' = whitelist]_vars

\* the device records without the display name that the dashboard caches
Unnamed(chs) ==
    [c \in DOMAIN chs |-> [chs[c] EXCEPT !.channel_name = NoName]]

\* C28, amended: a step of /pause, /set_timezone, /regenerate_key,
\* /replace_key, /transfer, /notify or of a whitelist command, accepted or
\* refused, leaves the state, last_seen and last_change of every device and
\* the whole history as they were; a step of /status, /history or /export and the step of the
\* dashboard that computes the statistics change nothing that is stored; the
\* step of the dashboard that follows the look-up of the chat changes at
\* most the channel_name of the device it was asked for.
C28_ManagementFrame_Amended ==
    [][/\ out'.op \in ManagementOps
            => /\ Observed(channels') = Observed(channels)
               /\ history' = history
       /\ out'.op \in QueryOps
            => /\ history' = history
               /\ notifications' = notifications
               /\ whitelist' = whitelist
               /\ Unnamed(channels') = Unnamed(channels)
               /\ \A c \in DOMAIN channels :
                     channels'[c] # channels[c]
                        => out'.op = "dashboard_name" /\ out'.channel_id = c]_vars

\* a device that holds a state, a last_seen, a last_change and a history was
\* paused, its dashboard stored its display name, and the last step is a
\* /notify that stored a setting
C28_Witness ==
    /\ out.op = "notify"
    /\ notifications # <<>>
    /\ 1 \in DOMAIN channels
    /\ channels[1].paused = 1
    /\ channels[1].channel_name # NoName
    /\ channels[1].is_power_on = 1
    /\ channels[1].last_request_time = StartTime
    /\ channels[1].last_status_change = StartTime
    /\ history[1] = <<[status |-> 1, timestamp |-> StartTime]>>

\* C29: the step that computes the daily statistics of a device leaves every
\* device record and every history event as they were, whether it returns
\* numbers or None.
C29_StatsReadOnly ==
    [][out'.op = "dashboard"
          => channels' = channels /\ history' = history]_vars

\* the statistics of a stored device with history were computed
C29_Witness ==
    /\ Answered
    /\ out.channel_id \in DOMAIN channels
    /\ history[out.channel_id] # <<>>
    /\ out.stats.defined
    /\ out.stats.uptime + out.stats.downtime > 0

\* C30: in every state no two devices hold the same secret key, so a
\* heartbeat token selects at most one device.
C30_KeysUnique ==
    /\ \A c, d \in DOMAIN channels :
          channels[c].api_key = channels[d].api_key => c = d
    /\ \A api_key \in KnownKeys : Cardinality(get_channel_by_key(api_key)) <= 1

\* a key that a device gave up is now held by the other device: /replace_key
\* was accepted with a key that had a holder before
C30_Witness ==
    /\ out.op = "replace_key" /\ out.status = "ok"
    /\ 1 \in DOMAIN channels /\ 2 \in DOMAIN channels
    /\ channels[1].api_key = 2
    /\ channels[2].api_key = 3

\* the devices that hold api_key in the table chs
Holders(chs, api_key) ==
    {c \in DOMAIN chs : chs[c].api_key = api_key}

KeyOps == {"regenerate_key", "replace_key"}

\* C31: an accepted /regenerate_key or /replace_key leaves the old key
\* without a holder and the new key held by the same device only, with the
\* state, last_seen, last_change and history of every device as they were
\* (a regenerated key always differs from the old one); a heartbeat with a
\* key that has no holder is answered 403 and changes nothing; the heartbeat
\* that follows the rotation with the new key is recorded for that device.
C31_KeyRotation ==
    [][/\ (out'.op \in KeyOps /\ out'.status = "ok")
            => LET c == out'.channel_id
                   old == channels[c].api_key
                   new == channels'[c].api_key
               IN  /\ out'.op = "regenerate_key" => new # old
                   /\ new # old => Holders(channels', old) = {}
                   /\ Holders(channels', new) = {c}
                   /\ Observed(channels') = Observed(channels)
                   /\ history' = history
       /\ (out'.op = "ping" /\ out'.api_key # NoKey
              /\ Holders(channels, out'.api_key) = {})
            => /\ out'.status = "403"
               /\ channels' = channels /\ history' = history
       /\ (out.op \in KeyOps /\ out.status = "ok" /\ out'.op = "ping"
              /\ out'.api_key = channels[out.channel_id].api_key)
            => /\ out'.channel_id = out.channel_id
               /\ channels'[out.channel_id].last_request_time = clock
               /\ channels'[out.channel_id].is_power_on = 1
               /\ \A d \in DOMAIN channels \ {out.channel_id} :
                     channels'[d] = channels[d] /\ history'[d] = history[d]]_vars

\* device 1 was ON since 300, got key 3 in place of key 1, and its heartbeat
\* with key 3 at 600 found it ON: nothing was lost across the rotation
C31_Witness ==
    /\ out.op = "ping" /\ out.status = "200" /\ out.api_key = 3
    /\ out.channel_id = 1 /\ out.was_on
    /\ 1 \in DOMAIN channels /\ channels[1].api_key = 3
    /\ channels[1].last_request_time = 2 * timeout_seconds
    /\ channels[1].last_status_change = timeout_seconds
    /\ history[1] = <<[status |-> 1, timestamp |-> timeout_seconds]>>

\* the events of a history, the one appended last first
RECURSIVE Reverse(_)
Reverse(seq) ==
    IF seq = <<>> THEN <<>> ELSE <<Last(seq)>> \o Reverse(SubSeq(seq, 1, Len(seq) - 1))

Ascending(rows) ==
    \A i \in 1..(Len(rows) - 1) : rows[i].timestamp <= rows[i + 1].timestamp

\* an answered /export: every event of the device in append order, ascending
\* in time, and one trailing record (current state, time of the export)
ExportAsClaimed ==
    (out.op = "export" /\ out.status = "ok")
    => LET c == out.channel_id
           n == Len(history[c])
       IN  /\ Len(out.rows) = n + 1
           /\ SubSeq(out.rows, 1, n) = history[c]
           /\ Ascending(SubSeq(out.rows, 1, n))
           /\ out.rows[n + 1] =
                 [status |-> IF State(channels, c) = "ON" THEN 1 ELSE 0,
                  timestamp |-> clock]

\* an answered /history with a positive limit: no more than limit events
HistoryAtMostLimit ==
    (out.op = "history" /\ out.status \in {"ok", "empty"} /\ out.limit > 0)
    => Len(out.rows) <= out.limit

\* C32: /history lists at most `limit` events of the device, the one
\* appended last first and so on backwards; /export lists all its events in
\* ascending order and then exactly one record with the current state and
\* the time of the export.
C32_HistoryAndExport ==
    /\ HistoryAtMostLimit
    /\ (out.op = "history" /\ out.status \in {"ok", "empty"} /\ out.limit > 0)
         => LET rev == Reverse(history[out.channel_id])
            IN  out.rows = SubSeq(rev, 1, Len(out.rows))
    /\ ExportAsClaimed

\* C33: for every device, the history is empty exactly when last_change is
\* absent, and otherwise the stored state and last_change are the status
\* and the timestamp of the event appended last.
C33_LastChangeIsLastEvent ==
    \A c \in DOMAIN channels :
        /\ (history[c] = <<>>) <=> (channels[c].last_status_change = NULL)
        /\ history[c] # <<>>
             => /\ channels[c].is_power_on = Last(history[c]).status
                /\ channels[c].last_status_change = Last(history[c]).timestamp

\* C34: for every device that has both, last_change <= last_seen; so the ON
\* duration last_seen - last_change that the sweep reports from a row of its
\* snapshot is not negative.
C34_ChangeNotAfterSeen ==
    /\ \A c \in DOMAIN channels :
          (channels[c].last_status_change # NULL
             /\ channels[c].last_request_time # NULL)
          => channels[c].last_status_change <= channels[c].last_request_time
    /\ \A i \in 1..Len(scanRows) :
          (scanRows[i].last_req # NULL /\ scanRows[i].last_change # NULL)
          => scanRows[i].last_req - scanRows[i].last_change >= 0

\* C35: the heartbeat that finds its device not ON appends exactly one ON
\* event, and a heartbeat for the same device handled right after it, at
\* the same reading of the clock, finds the device ON and adds no event and
\* no state change: prior-state read and transition write of one heartbeat
\* are one step.
C35_ConcurrentHeartbeats ==
    [][/\ (out'.op = "ping" /\ out'.channel_id # NULL /\ ~out'.was_on)
            => LET c == out'.channel_id
               IN  /\ channels[c].is_power_on # 1
                   /\ channels'[c].is_power_on = 1
                   /\ history'[c] =
                         Append(history[c], [status |-> 1, timestamp |-> clock])
       /\ (/\ out.op = "ping" /\ out.channel_id # NULL /\ ~out.was_on
           /\ out'.op = "ping" /\ out'.channel_id = out.channel_id)
            => LET c == out.channel_id
               IN  /\ out'.was_on
                   /\ history' = history
                   /\ channels'[c].is_power_on = 1
                   /\ channels'[c].last_status_change
                         = channels[c].last_status_change]_vars

\* a second heartbeat reached the device at the reading of its promotion,
\* while the handler of the first is suspended in send_message
C35_Witness ==
    /\ out.op = "ping" /\ out.status = "200" /\ out.was_on
    /\ \E p \in pings : p.channel_id = out.channel_id /\ p.now = clock
    /\ out.channel_id \in DOMAIN channels
    /\ channels[out.channel_id].last_status_change = clock
    /\ channels[out.channel_id].last_request_time = clock
    /\ Len(history[out.channel_id]) = 1
    /\ Last(history[out.channel_id]) = [status |-> 1, timestamp |-> clock]

\* the columns and the history of device d are the same after the step
Untouched(d) ==
    /\ d \in DOMAIN channels'
    /\ channels'[d].is_power_on = channels[d].is_power_on
    /\ channels'[d].last_request_time = channels[d].last_request_time
    /\ channels'[d].last_status_change = channels[d].last_status_change
    /\ channels'[d].paused = channels[d].paused
    /\ history'[d] = history[d]

\* C36: a heartbeat for device A, and the sweep's transition of the device A
\* of a snapshot row, leave the state, last_seen, last_change, paused flag
\* and history of every other device as they were.
C36_DeviceIndependence ==
    [][(out'.op \in {"ping", "scan_off"} /\ out'.channel_id # NULL)
          => \A d \in DOMAIN channels \ {out'.channel_id} : Untouched(d)]_vars

\* C37: no step lowers or clears the last_seen of a device it keeps: a
\* heartbeat stores a value >= the stored one, and sweeps and management
\* commands leave it as it is.
C37_LastSeenMonotone ==
    [][\A c \in DOMAIN channels \cap DOMAIN channels' :
          /\ channels[c].last_request_time # NULL
                => /\ channels'[c].last_request_time # NULL
                   /\ channels'[c].last_request_time
                         >= channels[c].last_request_time
          /\ channels'[c].last_request_time # channels[c].last_request_time
                => /\ out'.op = "ping" /\ out'.channel_id = c
                   /\ channels'[c].last_request_time = clock]_vars

\* a device seen at 300, turned OFF by the sweep at 900 and then paused has
\* kept its last_seen
C37_Witness ==
    /\ out.op = "pause" /\ out.status = "ok"
    /\ out.channel_id \in DOMAIN channels
    /\ channels[out.channel_id].paused = 1
    /\ channels[out.channel_id].is_power_on = 0
    /\ channels[out.channel_id].last_request_time = StartTime
    /\ Len(history[out.channel_id]) = 2
    /\ clock > StartTime + timeout_seconds

\* C38: the first event of every device, in the order of appending and in
\* the order of timestamps that the statistics read, is an ON event; so the
\* statistics of a day without an earlier event start from ON.
C38_FirstEventIsOn ==
    \A c \in DOMAIN channels :
        history[c] # <<>>
        => /\ history[c][1].status = 1
           /\ OrderByTimestamp(history[c])[1].status = 1

\* the commands reserved to the owner of a device
OwnerOps ==
    {"pause", "set_timezone", "regenerate_key", "replace_key",
     "remove_channel", "transfer"}

\* the settings of device c differ after the step, or the device is gone
SettingsChanged(c) ==
    \/ c \notin DOMAIN channels'
    \/ channels'[c].owner_id # channels[c].owner_id
    \/ channels'[c].api_key # channels[c].api_key
    \/ channels'[c].paused # channels[c].paused
    \/ channels'[c].timezone # channels[c].timezone

\* C39: an owner command on an existing device issued by anyone but its
\* current owner is refused and changes nothing; the settings of a device
\* change, or the device is removed, only in a step of an owner command
\* issued by its current owner; after a transfer to someone else the
\* commands of the previous owner on that device are refused.
C39_OwnerOnly ==
    [][/\ \A c \in DOMAIN channels :
            /\ (out'.op \in OwnerOps /\ out'.channel_id = c
                  /\ out'.user_id # channels[c].owner_id)
                 => /\ out'.status = "refused"
                    /\ channels' = channels /\ history' = history
            /\ SettingsChanged(c)
                 => /\ out'.op \in OwnerOps /\ out'.channel_id = c
                    /\ out'.status = "ok"
                    /\ out'.user_id = channels[c].owner_id
       /\ (/\ out.op = "transfer" /\ out.status = "ok"
           /\ out.channel_id \in DOMAIN channels
           /\ channels[out.channel_id].owner_id # out.user_id
           /\ out'.op \in OwnerOps /\ out'.channel_id = out.channel_id
           /\ out'.user_id = out.user_id)
            => out'.status = "refused" /\ channels' = channels]_vars

\* device 1 was transferred from user 1 to user 2, and the /pause of user 1
\* that followed was refused
C39_Witness ==
    /\ out.op = "pause" /\ out.status = "refused"
    /\ out.channel_id = 1 /\ out.user_id = 1
    /\ 1 \in DOMAIN channels
    /\ channels[1].owner_id = 2
    /\ channels[1].paused = 0

\* C40: /create_channel and /import_channel for an id that has a device are
\* refused and leave that device (owner, key, state, last_seen, last_change
\* and every other column), every other device and the history unchanged.
C40_ExistingIdRefused ==
    [][(/\ out'.op \in {"create_channel", "import_channel"}
        /\ out'.channel_id \in DOMAIN channels)
       => /\ out'.status = "refused"
          /\ channels' = channels
          /\ history' = history]_vars

\* someone else tried to import over a device that is ON and has history
C40_Witness ==
    /\ out.op = "import_channel" /\ out.status = "refused"
    /\ out.channel_id \in DOMAIN channels
    /\ channels[out.channel_id].owner_id # out.user_id
    /\ channels[out.channel_id].is_power_on = 1
    /\ history[out.channel_id] # <<>>
====
